---- MODULE Spec2Model ----
(***************************************************************************)
(* A model of straw, the random-access reader of .hic contact-matrix files *)
(* (src/coolbox/utilities/hic/strawC_src/straw.cpp).                       *)
(*                                                                         *)
(* A query (straw or getSize) is a sequence of steps against a byte        *)
(* source: header, footer, normalization vectors, matrix index, blocks.    *)
(* The two file-scope variables of the program, version and total_bytes,   *)
(* are the only state that outlives a query.  Block payloads are modelled  *)
(* at byte level, so that a payload decoded under the wrong format version *)
(* yields what the decoder really makes of those bytes.                    *)
(***************************************************************************)
EXTENDS Integers, Sequences, FiniteSets, TLC

(***************************************************************************)
(* Bounds of the model.                                                    *)
(***************************************************************************)
\* largest bin index of a chromosome of the generated files
MaxBin == 2
\* largest number of records stored in one matrix of a generated file
MaxRecs == 1

(***************************************************************************)
(* Machine integers.  int is 32 bits wide; a value is kept as the signed   *)
(* number in -2^31 .. 2^31-1 and handled through its four bytes, so that   *)
(* no intermediate result leaves that range.                               *)
(***************************************************************************)
IntMax == 2147483647

Min2(a, b) == IF a <= b THEN a ELSE b

Max2(a, b) == IF a >= b THEN a ELSE b

\* byte k (0 = least significant) of the two's complement form of a
ByteOf(a, k) ==
  CASE k = 0 -> a % 256
    [] k = 1 -> (a \div 256) % 256
    [] k = 2 -> (a \div 65536) % 256
    [] k = 3 -> (a \div 16777216) % 256

\* the int whose little-endian bytes are b0 b1 b2 b3
FromBytes32(b0, b1, b2, b3) ==
  b0 + b1 * 256 + b2 * 65536 + (IF b3 >= 128 THEN b3 - 256 ELSE b3) * 16777216

\* the short whose little-endian bytes are b0 b1
FromBytes16(b0, b1) ==
  b0 + (IF b1 >= 128 THEN b1 - 256 ELSE b1) * 256

\* the signed char with byte b
FromByte8(b) == IF b >= 128 THEN b - 256 ELSE b

\* a * b as the machine computes it: the low 32 bits of the product
IntMul(a, b) ==
  LET a0 == ByteOf(a, 0)  a1 == ByteOf(a, 1)  a2 == ByteOf(a, 2)  a3 == ByteOf(a, 3)
      b0 == ByteOf(b, 0)  b1 == ByteOf(b, 1)  b2 == ByteOf(b, 2)  b3 == ByteOf(b, 3)
      c0 == a0 * b0
      c1 == a0 * b1 + a1 * b0 + (c0 \div 256)
      c2 == a0 * b2 + a1 * b1 + a2 * b0 + (c1 \div 256)
      c3 == a0 * b3 + a1 * b2 + a2 * b1 + a3 * b0 + (c2 \div 256)
  IN  FromBytes32(c0 % 256, c1 % 256, c2 % 256, c3 % 256)

\* whether the mathematical product a * b (a, b >= 0) fits an int
MulFits(a, b) == b = 0 \/ a <= IntMax \div b

\* a / b of C: the quotient truncated toward zero (b > 0)
IntDiv(a, b) == IF a >= 0 THEN a \div b ELSE -((-a) \div b)

(***************************************************************************)
(* Byte streams.  A payload is a sequence of bytes 0..255; the stream      *)
(* position p counts the bytes consumed.                                   *)
(***************************************************************************)
Bytes32(a) == <<ByteOf(a, 0), ByteOf(a, 1), ByteOf(a, 2), ByteOf(a, 3)>>

Bytes16(a) == <<ByteOf(a, 0), ByteOf(a, 1)>>

\* whether n more bytes can be read at position p
CanRead(bs, p, n) == p + n <= Len(bs)

Rd32(bs, p) == FromBytes32(bs[p + 1], bs[p + 2], bs[p + 3], bs[p + 4])

Rd16(bs, p) == FromBytes16(bs[p + 1], bs[p + 2])

Rd8(bs, p) == FromByte8(bs[p + 1])

(***************************************************************************)
(* float values.  A float is kept as its 32-bit pattern (an int).          *)
(***************************************************************************)
RECURSIVE Log2(_)
\* the exponent of the leading bit of n >= 1
Log2(n) == IF n <= 1 THEN 0 ELSE 1 + Log2(n \div 2)

RECURSIVE Pow2(_)
Pow2(e) == IF e = 0 THEN 1 ELSE 2 * Pow2(e - 1)

\* the float a short converts to (counts = c): exact, a short has 16 bits
ShortToFloat(c) ==
  IF c = 0 THEN 0
  ELSE LET m == IF c < 0 THEN -c ELSE c
           e == Log2(m)
           bits == (e + 127) * 8388608 + (m - Pow2(e)) * Pow2(23 - e)
       IN  IF c < 0 THEN (bits - 1073741824) - 1073741824 ELSE bits

\* isnan(counts): all exponent bits set and a mantissa that is not zero
IsNaN(bits) ==
  IF bits >= 0 THEN bits > 2139095040 ELSE bits > -8388608

\* the quiet NaN a writer stores for "no entry"
NaNBits == 2139095040 + 4194304

\* a contact record as readBlock holds it: bin indices and the raw count
Rec(x, y, c) == [binX |-> x, binY |-> y, counts |-> c]

\* a contactRecord as vector<contactRecord> v(n) value-initialises it
ZeroRec == Rec(0, 0, 0)

(***************************************************************************)
(* Stream reads of readBlock.  A read past the end of the inflated payload *)
(* sets the stream's fail bit: that read and every later one stores        *)
(* nothing, and the variable keeps an indeterminate value j.  Position -1  *)
(* stands for a failed stream.                                             *)
(***************************************************************************)
Ok(bs, p, n) == p >= 0 /\ p + n <= Len(bs)

Adv(bs, p, n) == IF Ok(bs, p, n) THEN p + n ELSE -1

Get32(bs, p, j) == IF Ok(bs, p, 4) THEN Rd32(bs, p) ELSE j

Get16(bs, p, j) == IF Ok(bs, p, 2) THEN Rd16(bs, p) ELSE j

Get8(bs, p, j) == IF Ok(bs, p, 1) THEN Rd8(bs, p) ELSE j

\* the values an indeterminate int is drawn from
Indeterminate == {-1, 0, 1}

RECURSIVE readV6(_, _, _, _)
\* version < 7: n triples (binX, binY, counts) from position p
readV6(bs, p, n, j) ==
  IF n <= 0 THEN [recs |-> <<>>, p |-> p]
  ELSE LET binX == Get32(bs, p, j)
           p1 == Adv(bs, p, 4)
           binY == Get32(bs, p1, j)
           p2 == Adv(bs, p1, 4)
           counts == Get32(bs, p2, j)
           rest == readV6(bs, Adv(bs, p2, 4), n - 1, j)
       IN  [recs |-> <<Rec(binX, binY, counts)>> \o rest.recs, p |-> rest.p]

RECURSIVE readCols(_, _, _, _, _, _, _)
\* the inner loop of the list-of-rows representation: n cells of row binY
readCols(bs, p, n, binY, binXOffset, useShort, j) ==
  IF n <= 0 THEN [recs |-> <<>>, p |-> p]
  ELSE LET x == Get16(bs, p, j)
           p1 == Adv(bs, p, 2)
           counts == IF useShort = 0 THEN ShortToFloat(Get16(bs, p1, j))
                     ELSE Get32(bs, p1, j)
           p2 == Adv(bs, p1, IF useShort = 0 THEN 2 ELSE 4)
           rest == readCols(bs, p2, n - 1, binY, binXOffset, useShort, j)
       IN  [recs |-> <<Rec(binXOffset + x, binY, counts)>> \o rest.recs,
            p |-> rest.p]

RECURSIVE readRows(_, _, _, _, _, _, _)
\* the outer loop of the list-of-rows representation: n rows
readRows(bs, p, n, binXOffset, binYOffset, useShort, j) ==
  IF n <= 0 THEN [recs |-> <<>>, p |-> p]
  ELSE LET y == Get16(bs, p, j)
           p1 == Adv(bs, p, 2)
           colCount == Get16(bs, p1, j)
           row == readCols(bs, Adv(bs, p1, 2), colCount, y + binYOffset,
                           binXOffset, useShort, j)
           rest == readRows(bs, row.p, n - 1, binXOffset, binYOffset, useShort, j)
       IN  [recs |-> row.recs \o rest.recs, p |-> rest.p]

RECURSIVE readDense(_, _, _, _, _, _, _, _, _)
\* type 2: cells i .. nPts-1 of a rectangle of width w (w # 0)
readDense(bs, p, i, nPts, w, binXOffset, binYOffset, useShort, j) ==
  IF i >= nPts THEN [recs |-> <<>>, p |-> p]
  ELSE LET row == IntDiv(i, w)
           col == i - row * w
           c == IF useShort = 0 THEN Get16(bs, p, j) ELSE Get32(bs, p, j)
           skip == IF useShort = 0 THEN c = -32768 ELSE IsNaN(c)
           counts == IF useShort = 0 THEN ShortToFloat(c) ELSE c
           rest == readDense(bs, Adv(bs, p, IF useShort = 0 THEN 2 ELSE 4), i + 1,
                             nPts, w, binXOffset, binYOffset, useShort, j)
       IN  [recs |-> (IF skip THEN <<>>
                      ELSE <<Rec(binXOffset + col, binYOffset + row, counts)>>)
                     \o rest.recs,
            p |-> rest.p]

\* n value-initialised records
Zeros(n) == [i \in 1..n |-> ZeroRec]

\* v after the stores v[0], v[1], ... of the decoded records into a vector of
\* nRecords value-initialised records
Stored(nRecords, decoded) ==
  [i \in 1..nRecords |-> IF i <= Len(decoded) THEN decoded[i] ELSE ZeroRec]

\* the bytes inflate leaves in uncompressedBytes: the output buffer holds
\* 10 * idx.size bytes and inflate stops when it is full
Inflated(blk, size) == SubSeq(blk, 1, Min2(Len(blk), 10 * size))

\* readBlock: the records of one block.  ver is the value of the file-scope
\* variable version at the time of the call, size is idx.size, blk the bytes
\* the block inflates to, j the indeterminate value.  fault is "none", "throw"
\* (vector's constructor throws on a negative count) or "ub" (an indeterminate
\* value was used, a store went past the end of v, or a division by zero).
readBlock(ver, size, blk, j) ==
  IF size = 0 THEN [v |-> <<>>, fault |-> "none"]
  ELSE
    LET bs == Inflated(blk, size)
        nRecords == Get32(bs, 0, j)
        p0 == Adv(bs, 0, 4)
    IN
    IF nRecords < 0 THEN [v |-> <<>>, fault |-> IF p0 = -1 THEN "ub" ELSE "throw"]
    ELSE IF ver < 7 THEN
      LET d == readV6(bs, p0, nRecords, j)
      IN  [v |-> d.recs, fault |-> IF d.p = -1 THEN "ub" ELSE "none"]
    ELSE
      LET binXOffset == Get32(bs, p0, j)
          p1 == Adv(bs, p0, 4)
          binYOffset == Get32(bs, p1, j)
          p2 == Adv(bs, p1, 4)
          useShort == Get8(bs, p2, j)
          p3 == Adv(bs, p2, 1)
          type == Get8(bs, p3, j)
          p4 == Adv(bs, p3, 1)
      IN
      IF type = 1 THEN
        LET rowCount == Get16(bs, p4, j)
            d == readRows(bs, Adv(bs, p4, 2), rowCount, binXOffset, binYOffset,
                          useShort, j)
        IN  [v |-> Stored(nRecords, d.recs),
             fault |-> IF d.p = -1 \/ Len(d.recs) > nRecords THEN "ub" ELSE "none"]
      ELSE IF type = 2 THEN
        LET nPts == Get32(bs, p4, j)
            p5 == Adv(bs, p4, 4)
            w == Get16(bs, p5, j)
            p6 == Adv(bs, p5, 2)
        IN  IF nPts > 0 /\ w = 0 THEN [v |-> <<>>, fault |-> "ub"]
            ELSE LET d == readDense(bs, p6, 0, nPts, w, binXOffset, binYOffset,
                                    useShort, j)
                 IN  [v |-> Stored(nRecords, d.recs),
                      fault |-> IF d.p = -1 \/ Len(d.recs) > nRecords
                                THEN "ub" ELSE "none"]
      ELSE [v |-> Zeros(nRecords), fault |-> IF p4 = -1 THEN "ub" ELSE "none"]

\* readSize taking the count from the field after nRecords
readSizeAfter(size, blk, j) ==
  IF size = 0 THEN [n |-> 0, fault |-> "none"]
  ELSE LET bs == Inflated(blk, size)
       IN  [n |-> Get32(bs, 4, j),
            fault |-> IF Ok(bs, 4, 4) THEN "none" ELSE "ub"]

\* readSize: the leading nRecords field of one block
readSize(size, blk, j) ==
  IF size = 0 THEN [n |-> 0, fault |-> "none"]
  ELSE LET bs == Inflated(blk, size)
       IN  [n |-> Get32(bs, 0, j),
            fault |-> IF Ok(bs, 0, 4) THEN "none" ELSE "ub"]

(***************************************************************************)
(* Files.  A file is described by what its writer stored (fd): the magic   *)
(* string, the format version, the block encoding, the zoom levels, the    *)
(* stored cells and the chromosomes that have a normalization vector.  The *)
(* operators below lay that content out as the .hic format does; the       *)
(* reader sees only the layout.                                            *)
(*   fd.magic     the magic string, a sequence of characters               *)
(*   fd.ver       the version field of the header                          *)
(*   fd.enc       "v6" (triples), "rows" (type 1) or "dense" (type 2)      *)
(*   fd.useShort  0: counts stored as short, 1: as float                   *)
(*   fd.len       the length of each of the two chromosomes                *)
(*   fd.lv        the zoom levels of every matrix, in file order: records  *)
(*                [unit, binSize, blockBinCount, blockColumnCount, f],     *)
(*                a level storing the cells coarsened by the factor f      *)
(*   fd.cells     the cells <<x, y>> that hold a contact                   *)
(*   fd.norms     the chromosome indices with a "VC" normalization vector  *)
(*   fd.bad       the numbers of the blocks that are damaged                *)
(*   fd.damage    how: "inflate" (the deflate stream is corrupt from its    *)
(*                start), "truncated" (the payload lacks its last byte),    *)
(*                "type" (a block type that is neither 1 nor 2), "more"     *)
(*                or "fewer" (the nRecords field is one more, or one less,  *)
(*                than the records that follow)                             *)
(*   fd.again     the keys the footer lists once more: <<i, m>> for the key *)
(*                of pair number i with the position of matrix number m     *)
(***************************************************************************)
BP == <<"B", "P">>

FRAG == <<"F", "R", "A", "G">>

\* the chromosome table of the header: name, length; the index is the place
Chroms(fd) == <<[name |-> "chr1", length |-> fd.len],
                [name |-> "chr2", length |-> fd.len]>>

\* the chromosome pairs that have a matrix, in the order of the footer
Pairs == <<<<0, 0>>, <<0, 1>>>>

\* the count a writer stored in cell <<x, y>> of level k
CountOf(k, x, y) == 1 + x + 10 * y + 100 * k

\* the cells of level k of the matrix of pair pr: the file stores only the
\* upper triangle of an intrachromosomal matrix
LevelCells(fd, pr, k) ==
  LET f == fd.lv[k].f
      all == {<<c[1] \div f, c[2] \div f>> : c \in fd.cells}
  IN  IF pr[1] = pr[2] THEN {c \in all : c[1] <= c[2]} ELSE all

\* the number of the block that holds cell c
BlockOf(lvl, c) ==
  (c[2] \div lvl.blockBinCount) * lvl.blockColumnCount + (c[1] \div lvl.blockBinCount)

RECURSIVE SortCells(_)
\* the cells in row-major order
SortCells(S) ==
  IF S = {} THEN <<>>
  ELSE LET m == CHOOSE c \in S :
                  \A d \in S : c[2] < d[2] \/ (c[2] = d[2] /\ c[1] <= d[1])
       IN  <<m>> \o SortCells(S \ {m})

RECURSIVE Flat(_)
\* the concatenation of a sequence of byte sequences
Flat(ss) == IF ss = <<>> THEN <<>> ELSE Head(ss) \o Flat(Tail(ss))

MinOf(S) == CHOOSE m \in S : \A n \in S : m <= n

MaxOf(S) == CHOOSE m \in S : \A n \in S : m >= n

\* the bytes of a count, as a short or as a float
EncCount(useShort, c) ==
  IF useShort = 0 THEN Bytes16(c) ELSE Bytes32(ShortToFloat(c))

\* a block of triples (version < 7)
EncV6(S, k) ==
  LET cs == SortCells(S)
  IN  Bytes32(Len(cs))
      \o Flat([i \in 1..Len(cs) |->
                 Bytes32(cs[i][1]) \o Bytes32(cs[i][2])
                 \o Bytes32(ShortToFloat(CountOf(k, cs[i][1], cs[i][2])))])

\* a list-of-rows block (type 1)
EncRows(S, k, useShort) ==
  LET xo == MinOf({c[1] : c \in S})
      yo == MinOf({c[2] : c \in S})
      ys == SortCells({<<0, c[2]>> : c \in S})
      row(y) == LET cs == SortCells({c \in S : c[2] = y})
                IN  Bytes16(y - yo) \o Bytes16(Len(cs))
                    \o Flat([i \in 1..Len(cs) |->
                               Bytes16(cs[i][1] - xo)
                               \o EncCount(useShort, CountOf(k, cs[i][1], y))])
  IN  Bytes32(Cardinality(S)) \o Bytes32(xo) \o Bytes32(yo) \o <<useShort, 1>>
      \o Bytes16(Len(ys)) \o Flat([i \in 1..Len(ys) |-> row(ys[i][2])])

\* a dense block (type 2): the bounding rectangle, a sentinel in each cell
\* without a contact
EncDense(S, k, useShort) ==
  LET xo == MinOf({c[1] : c \in S})
      yo == MinOf({c[2] : c \in S})
      w == MaxOf({c[1] : c \in S}) - xo + 1
      h == MaxOf({c[2] : c \in S}) - yo + 1
      cell(i) == LET x == xo + (i % w)
                     y == yo + (i \div w)
                 IN  IF <<x, y>> \in S THEN EncCount(useShort, CountOf(k, x, y))
                     ELSE IF useShort = 0 THEN Bytes16(-32768)
                     ELSE Bytes32(NaNBits)
  IN  Bytes32(Cardinality(S)) \o Bytes32(xo) \o Bytes32(yo) \o <<useShort, 2>>
      \o Bytes32(w * h) \o Bytes16(w) \o Flat([i \in 1..(w * h) |-> cell(i - 1)])

\* the bytes block b of level k of pair pr inflates to
BlockBytes(fd, pr, k, b) ==
  LET S == {c \in LevelCells(fd, pr, k) : BlockOf(fd.lv[k], c) = b}
  IN  IF fd.enc = "v6" THEN EncV6(S, k)
      ELSE IF fd.enc = "rows" THEN EncRows(S, k, fd.useShort)
      ELSE EncDense(S, k, fd.useShort)

(***************************************************************************)
(* The layout: where each part of the file lies.                           *)
(***************************************************************************)
\* the place of pair pr in Pairs, 0 when it has no matrix
PairIdx(pr) == IF \E i \in 1..Len(Pairs) : Pairs[i] = pr
               THEN CHOOSE i \in 1..Len(Pairs) : Pairs[i] = pr ELSE 0

MasterOf(fd) == 500000

MatrixPos(i) == 1000 * i

BlockPos(i, k, b) == 100000 + 10000 * i + 1000 * k + b

NormPos(chr, k) == 900000 + 1000 * chr + k

\* the numbers of the blocks of level k of pair number i that hold a cell
BlockSet(fd, i, k) == {BlockOf(fd.lv[k], c) : c \in LevelCells(fd, Pairs[i], k)}

\* the size of the deflated block b: the writer's deflate gains nothing on
\* payloads this short, a header of 32 bytes and up to 12 bytes a cell
DeflatedSize(fd, i, k, b) ==
  32 + 12 * Cardinality({c \in LevelCells(fd, Pairs[i], k) :
                           BlockOf(fd.lv[k], c) = b})

\* the block index of level k of pair number i: one triple per block that
\* holds a cell, in block order
BlockIndex(fd, i, k) ==
  LET bs == SortCells({<<0, b>> : b \in BlockSet(fd, i, k)})
  IN  [n \in 1..Len(bs) |->
         [blockNumber |-> bs[n][2],
          filePosition |-> BlockPos(i, k, bs[n][2]),
          blockSizeInBytes |-> DeflatedSize(fd, i, k, bs[n][2])]]

\* the bytes of one zoom level: unit, zoom index, four floats, three ints,
\* nBlocks, and 16 bytes a block triple
LevelSize(fd, i, k) ==
  (Len(fd.lv[k].unit) + 1) + 4 + 16 + 12 + 4 + 16 * Cardinality(BlockSet(fd, i, k))

RECURSIVE LevelStart(_, _, _)
\* the file position of level k of pair number i
LevelStart(fd, i, k) ==
  IF k = 1 THEN MatrixPos(i) + 12
  ELSE LevelStart(fd, i, k - 1) + LevelSize(fd, i, k - 1)

\* the entries of the footer's matrix list: one a pair and then, for each
\* <<i, m>> of fd.again, the key of pair number i once more, with the position
\* of the matrix of pair number m
FooterEntries(fd) ==
  [i \in 1..Len(Pairs) |->
     [key |-> ToString(Pairs[i][1]) \o "_" \o ToString(Pairs[i][2]),
      fpos |-> MatrixPos(i),
      sizeinbytes |-> 12]]
  \o [n \in 1..Len(fd.again) |->
        [key |-> ToString(Pairs[fd.again[n][1]][1]) \o "_"
                 \o ToString(Pairs[fd.again[n][1]][2]),
         fpos |-> MatrixPos(fd.again[n][2]),
         sizeinbytes |-> 12]]

\* the normalization vector of chromosome chr: one value a bin
NormValue(chr, bin) == IF chr = 0 THEN bin + 2 ELSE 2 * bin + 7

NormVector(fd, chr, k) ==
  [b \in 1..(fd.len \div fd.lv[k].binSize + 1) |-> NormValue(chr, b - 1)]

\* the footer's index of normalization vectors
NormIndex(fd) ==
  LET es == {<<chr, k>> : chr \in fd.norms, k \in 1..Len(fd.lv)}
      ord == SortCells({<<e[2], e[1]>> : e \in es})
  IN  [n \in 1..Len(ord) |->
         [normtype |-> "VC", chrIdx |-> ord[n][2], unit |-> fd.lv[ord[n][1]].unit,
          resolution |-> fd.lv[ord[n][1]].binSize,
          filePosition |-> NormPos(ord[n][2], ord[n][1]),
          sizeInBytes |-> 4 + 8 * Len(NormVector(fd, ord[n][2], ord[n][1]))]]

\* the bytes of the footer up to the end of the matrix list: nBytes, nEntries
\* and, an entry, the key with its NUL, a long and an int
FooterListSize(fd) ==
  LET es == FooterEntries(fd)
      RECURSIVE sum(_)
      sum(n) == IF n = 0 THEN 0 ELSE sum(n - 1) + Len(es[n].key) + 1 + 12
  IN  8 + sum(Len(es))

\* the bytes of the whole footer: the list, two empty expected-value sections
\* and the index of normalization vectors
FooterSize(fd) ==
  LET ns == NormIndex(fd)
      RECURSIVE sum(_)
      sum(n) == IF n = 0 THEN 0
                ELSE sum(n - 1) + 3 + 4 + (Len(ns[n].unit) + 1) + 4 + 12
  IN  FooterListSize(fd) + 8 + 4 + sum(Len(ns))

\* the length of the file, which an HTTP origin reports in Content-Range: the
\* footer is the last part of the file
TotalOf(fd) == MasterOf(fd) + FooterSize(fd)

(***************************************************************************)
(* The reader.                                                             *)
(***************************************************************************)
\* character k (from 0) of a string read by getline; past its end, the NUL
CharAt(str, k) == IF k < Len(str) THEN str[k + 1] ELSE "\\0"

\* readMagicString looking at the first character only
readMagicStringFirst(fd) == CharAt(fd.magic, 0) = "H"

\* readMagicString: whether this is a valid HiC file
readMagicString(fd) ==
  CharAt(fd.magic, 0) = "H" /\ CharAt(fd.magic, 1) = "I" /\ CharAt(fd.magic, 2) = "C"

\* readHeader assigning version only when the file's is the newer one
readHeaderNewer(fd, ver) ==
  IF ~readMagicString(fd)
  THEN [version |-> ver, master |-> -1, chromosomeMap |-> <<>>]
  ELSE IF fd.ver < 6
  THEN [version |-> Max2(ver, fd.ver), master |-> -1, chromosomeMap |-> <<>>]
  ELSE [version |-> Max2(ver, fd.ver), master |-> MasterOf(fd),
        chromosomeMap |-> Chroms(fd)]

\* readHeader: the chromosome table and the master pointer; ver is the value
\* of the file-scope variable version before the call, version its value after
readHeader(fd, ver) ==
  IF ~readMagicString(fd)
  THEN [version |-> ver, master |-> -1, chromosomeMap |-> <<>>]
  ELSE IF fd.ver < 6
  THEN [version |-> fd.ver, master |-> -1, chromosomeMap |-> <<>>]
  ELSE [version |-> fd.ver, master |-> MasterOf(fd), chromosomeMap |-> Chroms(fd)]

\* chromosomeMap.count(name)
HasChrom(chromosomeMap, name) ==
  \E i \in 1..Len(chromosomeMap) : chromosomeMap[i].name = name

\* chromosomeMap[name]: its index (the place in the header, from 0) and length
ChromOf(chromosomeMap, name) ==
  LET i == CHOOSE n \in 1..Len(chromosomeMap) : chromosomeMap[n].name = name
  IN  [index |-> i - 1, length |-> chromosomeMap[i].length]

\* the positions of a region descriptor name[:x:y], given as its fields
\* between the colons: the range when both x and y are there, else the whole
\* chromosome
ParsePos(loc, length) ==
  IF Len(loc) >= 3 THEN <<loc[2], loc[3]>> ELSE <<0, length>>

\* Regions without the exchange of the two descriptors
RegionsAsGiven(chromosomeMap, chr1loc, chr2loc, binsize) ==
  LET chr1 == ChromOf(chromosomeMap, chr1loc[1])
      chr2 == ChromOf(chromosomeMap, chr2loc[1])
      c1pos == ParsePos(chr1loc, chr1.length)
      c2pos == ParsePos(chr2loc, chr2.length)
      orig == <<c1pos[1], c1pos[2], c2pos[1], c2pos[2]>>
  IN  [c1 |-> Min2(chr1.index, chr2.index),
       c2 |-> Max2(chr1.index, chr2.index),
       origRegionIndices |-> orig,
       regionIndices |-> [n \in 1..4 |-> IntDiv(orig[n], binsize)]]

\* the region of the query: origRegionIndices as given by the user and
\* regionIndices in bins, the two descriptors exchanged when the first
\* chromosome has the higher index
Regions(chromosomeMap, chr1loc, chr2loc, binsize) ==
  LET chr1 == ChromOf(chromosomeMap, chr1loc[1])
      chr2 == ChromOf(chromosomeMap, chr2loc[1])
      c1pos == ParsePos(chr1loc, chr1.length)
      c2pos == ParsePos(chr2loc, chr2.length)
      orig == IF chr1.index > chr2.index
              THEN <<c2pos[1], c2pos[2], c1pos[1], c1pos[2]>>
              ELSE <<c1pos[1], c1pos[2], c2pos[1], c2pos[2]>>
  IN  [c1 |-> Min2(chr1.index, chr2.index),
       c2 |-> Max2(chr1.index, chr2.index),
       origRegionIndices |-> orig,
       regionIndices |-> [n \in 1..4 |-> IntDiv(orig[n], binsize)]]

\* the key of the matrix of chromosomes c1, c2 in the footer
MatrixKey(c1, c2) == ToString(c1) \o "_" \o ToString(c2)

\* the entries of a list that lie whole within the first avail bytes, each
\* entry n taking size[n] bytes after a head of `head` bytes
RECURSIVE Visible(_, _, _, _)
Visible(sizes, n, head, avail) ==
  IF n > Len(sizes) \/ head + sizes[n] > avail THEN n - 1
  ELSE Visible(sizes, n + 1, head + sizes[n], avail)

\* the first of the entries 1..n that matches, 0 when none does
FirstMatch(matches, n) ==
  IF \E i \in 1..n : matches[i]
  THEN CHOOSE i \in 1..n : matches[i] /\ \A m \in 1..(i - 1) : ~matches[m]
  ELSE 0

\* the last of the entries 1..n that matches, 0 when none does: the loops of
\* readFooter assign at every match and do not stop at the first
LastMatch(matches, n) ==
  IF \E i \in 1..n : matches[i]
  THEN CHOOSE i \in 1..n : matches[i] /\ \A m \in (i + 1)..n : ~matches[m]
  ELSE 0

\* readFooter reading on to the end of the footer whatever norm is
FooterEndAll(fd, avail, norm, hit) == Min2(avail, FooterSize(fd))

\* how far into the stream readFooter has read when it returns: to the end of
\* the matrix list when it has no entry of the key or norm is NONE, else to
\* the end of the index of normalization vectors
FooterEnd(fd, avail, norm, hit) ==
  IF hit = 0 \/ norm = "NONE" THEN Min2(avail, FooterListSize(fd))
  ELSE Min2(avail, FooterSize(fd))

\* readFooter on a stream of avail bytes that starts at the master pointer.
\* j is the indeterminate content of the locals the caller declares without
\* a value (c1NormEntry, c2NormEntry).
readFooter(fd, avail, c1, c2, norm, unit, resolution, j) ==
  LET none == [position |-> j, size |-> j]
      is(ns, c) == [n \in 1..Len(ns) |-> ns[n].chrIdx = c /\ ns[n].normtype = norm
                                          /\ ns[n].unit = unit
                                          /\ ns[n].resolution = resolution]
      entry(ns, m) ==
        IF m = 0 THEN none
        ELSE [position |-> ns[m].filePosition, size |-> ns[m].sizeInBytes]
      vectors(fpos, ns, m1, m2) ==
        [found |-> TRUE, myFilePos |-> fpos, c1NormEntry |-> entry(ns, m1),
         c2NormEntry |-> entry(ns, m2), found1 |-> m1 # 0, found2 |-> m2 # 0,
         end |-> FooterEnd(fd, avail, norm, 1)]
      index(fpos, ns, nseen) ==
        vectors(fpos, ns, LastMatch(is(ns, c1), nseen), LastMatch(is(ns, c2), nseen))
      matrix(es, ns, hit) ==
        IF hit = 0
        THEN [found |-> FALSE, myFilePos |-> 0, c1NormEntry |-> none,
              c2NormEntry |-> none, found1 |-> FALSE, found2 |-> FALSE,
              end |-> FooterEnd(fd, avail, norm, hit)]
        ELSE IF norm = "NONE"
        THEN [found |-> TRUE, myFilePos |-> es[hit].fpos, c1NormEntry |-> none,
              c2NormEntry |-> none, found1 |-> FALSE, found2 |-> FALSE,
              end |-> FooterEnd(fd, avail, norm, hit)]
        ELSE index(es[hit].fpos, ns,
                   Visible([n \in 1..Len(ns) |->
                              3 + 4 + (Len(ns[n].unit) + 1) + 4 + 12],
                           1, FooterListSize(fd) + 12, avail))
      entries(es, ns) ==
        matrix(es, ns,
               LastMatch([n \in 1..Len(es) |-> es[n].key = MatrixKey(c1, c2)],
                         Visible([n \in 1..Len(es) |-> Len(es[n].key) + 1 + 12],
                                 1, 8, avail)))
  IN  entries(FooterEntries(fd), NormIndex(fd))

\* the chromosome and level whose normalization vector lies at position pos
\* with size bytes, <<>> when none does
NormAt(fd, entry) ==
  LET at(ns) ==
        IF \E n \in 1..Len(ns) : ns[n].filePosition = entry.position
                                 /\ ns[n].sizeInBytes = entry.size
        THEN <<CHOOSE n \in 1..Len(ns) : ns[n].filePosition = entry.position>>
        ELSE <<>>
  IN  at(NormIndex(fd))

\* readNormalizationVector on the bytes of an index entry
readNormalizationVector(fd, entry) ==
  LET values(e) ==
        NormVector(fd, e.chrIdx,
                   CHOOSE k \in 1..Len(fd.lv) :
                     fd.lv[k].unit = e.unit /\ fd.lv[k].binSize = e.resolution)
  IN  values(NormIndex(fd)[NormAt(fd, entry)[1]])

\* the pair number and level <<i, k>> that start at file position pos, <<0, 0>>
\* when no zoom level starts there
LevelAt(fd, pos) ==
  LET at == {ik \in (1..Len(Pairs)) \X (1..Len(fd.lv)) :
               LevelStart(fd, ik[1], ik[2]) = pos}
  IN  IF at = {} THEN <<0, 0>> ELSE CHOOSE ik \in at : TRUE

\* the map of block numbers to index entries built from a block index
BlockMapOf(triples) ==
  [b \in {triples[n].blockNumber : n \in 1..Len(triples)} |->
     LET n == CHOOSE n \in 1..Len(triples) :
                triples[n].blockNumber = b
                /\ \A m \in (n + 1)..Len(triples) : triples[m].blockNumber # b
     IN  [size |-> triples[n].blockSizeInBytes, position |-> triples[n].filePosition]]

\* the empty map
NoBlocks == [b \in {} |-> [size |-> 0, position |-> 0]]

\* readMatrixZoomData taking every level for the one asked for
readMatrixZoomDataAny(fd, pos, myunit, mybinsize, bbc, bcc) ==
  LET level(ik) ==
        IF ik = <<0, 0>>
        THEN [found |-> FALSE, blockMap |-> NoBlocks, blockBinCount |-> bbc,
              blockColumnCount |-> bcc, next |-> pos]
        ELSE [found |-> TRUE,
              blockMap |-> BlockMapOf(BlockIndex(fd, ik[1], ik[2])),
              blockBinCount |-> fd.lv[ik[2]].blockBinCount,
              blockColumnCount |-> fd.lv[ik[2]].blockColumnCount,
              next |-> pos + LevelSize(fd, ik[1], ik[2])]
  IN  level(LevelAt(fd, pos))

\* readMatrixZoomData: one zoom level read from the stream at position pos.
\* bbc, bcc are the caller's myBlockBinCount and myBlockColumnCount, which a
\* level that does not match leaves as they are; next is the stream position
\* after the level.
readMatrixZoomData(fd, pos, myunit, mybinsize, bbc, bcc) ==
  LET level(ik) ==
        IF ik = <<0, 0>>
        THEN [found |-> FALSE, blockMap |-> NoBlocks, blockBinCount |-> bbc,
              blockColumnCount |-> bcc, next |-> pos]
        ELSE LET lvl == fd.lv[ik[2]]
                 found == myunit = lvl.unit /\ mybinsize = lvl.binSize
             IN  [found |-> found,
                  blockMap |-> IF found THEN BlockMapOf(BlockIndex(fd, ik[1], ik[2]))
                               ELSE NoBlocks,
                  blockBinCount |-> IF found THEN lvl.blockBinCount ELSE bbc,
                  blockColumnCount |-> IF found THEN lvl.blockColumnCount ELSE bcc,
                  next |-> pos + LevelSize(fd, ik[1], ik[2])]
  IN  level(LevelAt(fd, pos))

\* HeaderSizeHttp taking every unit to be as long as BP
HeaderSizeHttpBP(first) ==
  IF first = "B" \/ first = "F" THEN 5 * 4 + 4 * 4 + 3 ELSE 0

\* the bytes readMatrixZoomDataHttp takes the head of a zoom level to have,
\* from the first character of its unit; 0 when that is neither B nor F
HeaderSizeHttp(first) ==
  IF first = "B" THEN 5 * 4 + 4 * 4 + 3
  ELSE IF first = "F" THEN 5 * 4 + 4 * 4 + 5
  ELSE 0

\* readMatrixZoomDataHttp: one zoom level fetched by range requests at
\* myFilePosition.  The head is fetched with the size computed from the first
\* byte, the block index from the position after that head; a level that does
\* not match moves myFilePosition (next) past its block index.
readMatrixZoomDataHttp(fd, myFilePosition, myunit, mybinsize, bbc, bcc) ==
  LET miss == [found |-> FALSE, blockMap |-> NoBlocks, blockBinCount |-> bbc,
               blockColumnCount |-> bcc, next |-> myFilePosition]
      index(lvl, header_size, triples) ==
        LET found == myunit = lvl.unit /\ mybinsize = lvl.binSize
            aligned == header_size = (Len(lvl.unit) + 1) + 4 + 16 + 12 + 4
        IN  IF header_size = 0 \/ ~aligned THEN miss
            ELSE [found |-> found,
                  blockMap |-> IF found THEN BlockMapOf(triples) ELSE NoBlocks,
                  blockBinCount |-> IF found THEN lvl.blockBinCount ELSE bbc,
                  blockColumnCount |-> IF found THEN lvl.blockColumnCount ELSE bcc,
                  next |-> IF found THEN myFilePosition
                           ELSE myFilePosition + header_size
                                + Len(triples) * (4 + 8 + 4)]
      level(ik) ==
        IF ik = <<0, 0>> THEN miss
        ELSE index(fd.lv[ik[2]], HeaderSizeHttp(CharAt(fd.lv[ik[2]].unit, 0)),
                   BlockIndex(fd, ik[1], ik[2]))
  IN  level(LevelAt(fd, myFilePosition))

\* the number of zoom levels (nRes) of the matrix at file position pos
NResAt(fd, pos) ==
  IF \E i \in 1..Len(Pairs) : MatrixPos(i) = pos THEN Len(fd.lv) ELSE 0

RECURSIVE ScanLevels(_, _, _, _, _, _, _, _, _)
\* the loop  while (i < nRes && !found)  of readMatrix and readMatrixHttp
ScanLevels(isHttp, fd, pos, i, nRes, unit, resolution, bbc, bcc) ==
  IF i >= nRes
  THEN [found |-> FALSE, blockMap |-> NoBlocks, blockBinCount |-> bbc,
        blockColumnCount |-> bcc, next |-> pos]
  ELSE LET after(z) ==
             IF z.found THEN z
             ELSE ScanLevels(isHttp, fd, z.next, i + 1, nRes, unit, resolution,
                             bbc, bcc)
       IN  after(IF isHttp
                 THEN readMatrixZoomDataHttp(fd, pos, unit, resolution, bbc, bcc)
                 ELSE readMatrixZoomData(fd, pos, unit, resolution, bbc, bcc))

\* readMatrix: the block map of the level that matches unit and resolution in
\* the matrix at myFilePosition; bbc, bcc as in readMatrixZoomData
readMatrix(fd, myFilePosition, unit, resolution, bbc, bcc) ==
  ScanLevels(FALSE, fd, myFilePosition + 12, 0, NResAt(fd, myFilePosition), unit,
             resolution, bbc, bcc)

\* readMatrixHttp: the same over range requests
readMatrixHttp(fd, myFilePosition, unit, resolution, bbc, bcc) ==
  ScanLevels(TRUE, fd, myFilePosition + 3 * 4, 0, NResAt(fd, myFilePosition), unit,
             resolution, bbc, bcc)

\* getBlockNumbersForRegionFromBinPosition without the blocks of the mirror
getBlockNumbersDirect(regionIndices, blockBinCount, blockColumnCount, intra) ==
  LET col1 == IntDiv(regionIndices[1], blockBinCount)
      col2 == IntDiv(regionIndices[2] + 1, blockBinCount)
      row1 == IntDiv(regionIndices[3], blockBinCount)
      row2 == IntDiv(regionIndices[4] + 1, blockBinCount)
  IN  {r * blockColumnCount + c : r \in row1..row2, c \in col1..col2}

\* getBlockNumbersForRegionFromBinPosition ending at the block of the last bin
getBlockNumbersExact(regionIndices, blockBinCount, blockColumnCount, intra) ==
  LET col1 == IntDiv(regionIndices[1], blockBinCount)
      col2 == IntDiv(regionIndices[2], blockBinCount)
      row1 == IntDiv(regionIndices[3], blockBinCount)
      row2 == IntDiv(regionIndices[4], blockBinCount)
  IN  {r * blockColumnCount + c : r \in row1..row2, c \in col1..col2}
      \cup (IF intra
            THEN {r * blockColumnCount + c : r \in col1..col2, c \in row1..row2}
            ELSE {})

\* getBlockNumbersForRegionFromBinPosition (blockBinCount # 0)
getBlockNumbersForRegionFromBinPosition(regionIndices, blockBinCount, blockColumnCount, intra) ==
  LET col1 == IntDiv(regionIndices[1], blockBinCount)
      col2 == IntDiv(regionIndices[2] + 1, blockBinCount)
      row1 == IntDiv(regionIndices[3], blockBinCount)
      row2 == IntDiv(regionIndices[4] + 1, blockBinCount)
  IN  {r * blockColumnCount + c : r \in row1..row2, c \in col1..col2}
      \cup (IF intra
            THEN {r * blockColumnCount + c : r \in col1..col2, c \in row1..row2}
            ELSE {})

RECURSIVE SortInts(_)
\* a set<int> in the order its iterator visits it
SortInts(S) ==
  IF S = {} THEN <<>>
  ELSE LET m == MinOf(S) IN <<m>> \o SortInts(S \ {m})

\* blockMap[b] giving some entry of the map for a block it does not hold
EntryOfSome(blockMap, b) ==
  IF b \in DOMAIN blockMap THEN blockMap[b]
  ELSE IF DOMAIN blockMap = {} THEN [size |-> 0, position |-> 0]
  ELSE blockMap[CHOOSE d \in DOMAIN blockMap : TRUE]

\* blockMap[b]: the entry of block b, and a value-initialised one when the
\* map has none
EntryOf(blockMap, b) ==
  IF b \in DOMAIN blockMap THEN blockMap[b] ELSE [size |-> 0, position |-> 0]

\* what readBlock finds of the payload `bytes` of block b.  inflate's return
\* code is not looked at, and total_out bytes are taken as the payload.
Damaged(fd, b, bytes) ==
  IF b \notin fd.bad THEN bytes
  ELSE IF fd.damage = "inflate" THEN <<>>
  ELSE IF fd.damage = "truncated" THEN SubSeq(bytes, 1, Len(bytes) - 1)
  ELSE IF fd.damage = "type" /\ fd.ver >= 7 THEN [bytes EXCEPT ![14] = 3]
  ELSE IF fd.damage = "more"
  THEN Bytes32(Rd32(bytes, 0) + 1) \o SubSeq(bytes, 5, Len(bytes))
  ELSE IF fd.damage = "fewer"
  THEN Bytes32(Rd32(bytes, 0) - 1) \o SubSeq(bytes, 5, Len(bytes))
  ELSE bytes

\* the bytes the block at file position pos inflates to
BlockAt(fd, pos) ==
  LET d == pos - 100000
      i == d \div 10000
      k == (d % 10000) \div 1000
      b == d % 1000
  IN  Damaged(fd, b, BlockBytes(fd, Pairs[i], k, b))

\* c1Norm[bin]: the entry of bin; an index outside the vector reads past its
\* storage and yields the indeterminate value
NormAtBin(vec, bin, j) == IF bin >= 0 /\ bin < Len(vec) THEN vec[bin + 1] ELSE j

\* whether bin * binsize leaves the range of int
Overflows(bin, binsize) ==
  LET a == IF bin < 0 THEN -bin ELSE bin
      b == IF binsize < 0 THEN -binsize ELSE binsize
  IN  ~MulFits(a, b)

\* Emits with the mirrored test made for every pair of chromosomes
EmitsMirrored(orig, intra, x, y) ==
  \/ (x >= orig[1] /\ x <= orig[2] /\ y >= orig[3] /\ y <= orig[4])
  \/ (y >= orig[1] /\ y <= orig[2] /\ x >= orig[3] /\ x <= orig[4])

\* whether the loop body of straw emits the record with coordinates x, y
Emits(orig, intra, x, y) ==
  \/ (x >= orig[1] /\ x <= orig[2] /\ y >= orig[3] /\ y <= orig[4])
  \/ (intra /\ y >= orig[1] /\ y <= orig[2] /\ x >= orig[3] /\ x <= orig[4])

\* Counts with the two vectors exchanged
CountsExchanged(norm, c, c1Norm, c2Norm, rec, j) ==
  IF norm # "NONE"
  THEN <<c, NormAtBin(c2Norm, rec.binX, j) * NormAtBin(c1Norm, rec.binY, j)>>
  ELSE <<c, 1>>

\* the count of an emitted record: the raw count (a float's bits) over the
\* divisor, which is 1 when norm is NONE
Counts(norm, c, c1Norm, c2Norm, rec, j) ==
  IF norm # "NONE"
  THEN <<c, NormAtBin(c1Norm, rec.binX, j) * NormAtBin(c2Norm, rec.binY, j)>>
  ELSE <<c, 1>>

RECURSIVE EmitRecordsMirror(_, _, _, _)
\* EmitRecords that also pushes the transposed record of a record off the
\* diagonal of an intrachromosomal matrix
EmitRecordsMirror(L, v, n, j) ==
  IF n > Len(v) THEN <<>>
  ELSE LET rec == v[n]
           x == IntMul(rec.binX, L.args.binsize)
           y == IntMul(rec.binY, L.args.binsize)
           c == Counts(L.args.norm, rec.counts, L.c1Norm, L.c2Norm, rec, j)
       IN  (IF Emits(L.origRegionIndices, L.c1 = L.c2, x, y)
            THEN <<[binX |-> x, binY |-> y, counts |-> c]>>
                 \o (IF L.c1 = L.c2 /\ x # y
                     THEN <<[binX |-> y, binY |-> x, counts |-> c]>> ELSE <<>>)
            ELSE <<>>)
           \o EmitRecordsMirror(L, v, n + 1, j)

RECURSIVE EmitRecords(_, _, _, _)
\* the inner loop of straw over the records of one block, from record n: the
\* records pushed on `records`
EmitRecords(L, v, n, j) ==
  IF n > Len(v) THEN <<>>
  ELSE LET rec == v[n]
           x == IntMul(rec.binX, L.args.binsize)
           y == IntMul(rec.binY, L.args.binsize)
           c == Counts(L.args.norm, rec.counts, L.c1Norm, L.c2Norm, rec, j)
       IN  (IF Emits(L.origRegionIndices, L.c1 = L.c2, x, y)
            THEN <<[binX |-> x, binY |-> y, counts |-> c]>> ELSE <<>>)
           \o EmitRecords(L, v, n + 1, j)

\* whether that loop overflows an int or indexes a vector out of its bounds
EmitUndefined(L, v) ==
  \E n \in 1..Len(v) :
     \/ Overflows(v[n].binX, L.args.binsize)
     \/ Overflows(v[n].binY, L.args.binsize)
     \/ /\ L.args.norm # "NONE"
        /\ \/ v[n].binX < 0 \/ v[n].binX >= Len(L.c1Norm)
           \/ v[n].binY < 0 \/ v[n].binY >= Len(L.c2Norm)

(***************************************************************************)
(* The state.                                                              *)
(*   version, total_bytes  the file-scope variables of straw.cpp           *)
(*   plan    the calls to make: a sequence of rounds, a round being one    *)
(*           call or two calls that run interleaved                        *)
(*   round   the round that is running (0: none yet)                       *)
(*   q       the locals of the call of each slot, with its position pc     *)
(*   ret     what each call of each round returned                         *)
(***************************************************************************)
VARIABLES version, total_bytes, plan, round, q, ret

vars == <<version, total_bytes, plan, round, q, ret>>

Slots == {1, 2}

Idle == [pc |-> "idle"]

Pending == [kind |-> "pending", records |-> <<>>, count |-> 0]

\* the locals of a call that has just been entered.  reads lists the reads the
\* call has made of the file or URL so far, footerRead the bytes the read of
\* the footer took from it.
Fresh(args) ==
  [pc |-> "header", args |-> args, isHttp |-> FALSE, master |-> 0,
   c1 |-> 0, c2 |-> 0,
   origRegionIndices |-> <<0, 0, 0, 0>>, regionIndices |-> <<0, 0, 0, 0>>,
   myFilePos |-> 0,
   c1NormEntry |-> [position |-> 0, size |-> 0],
   c2NormEntry |-> [position |-> 0, size |-> 0],
   c1Norm |-> <<>>, c2Norm |-> <<>>,
   blockMap |-> NoBlocks, blockBinCount |-> 0, blockColumnCount |-> 0,
   blockNumbers |-> <<>>, records |-> <<>>, count |-> 0,
   reads |-> <<>>, footerRead |-> 0]

\* what straw returns (a vector of records) and what getSize returns (a count)
Returned(L, records, count) ==
  IF L.args.op = "straw"
  THEN [kind |-> "records", records |-> records, count |-> 0]
  ELSE [kind |-> "count", records |-> <<>>, count |-> count]

\* a call that ends by an exception ("throw") or by the process dying ("crash")
Aborted(how) == [kind |-> how, records |-> <<>>, count |-> 0]

\* the call of slot i ends with result r
Finish(i, r) ==
  /\ ret' = [ret EXCEPT ![round][i] = r]
  /\ q' = [q EXCEPT ![i] = Idle]

\* hdf, the header callback of every HTTP response: total_bytes becomes the
\* total after the "/" of Content-Range
hdf(fd) == TotalOf(fd)

InitWith(Plans) ==
  /\ version = 0
  /\ total_bytes = 0
  /\ plan \in Plans
  /\ round = 0
  /\ q = [i \in Slots |-> Idle]
  /\ ret = [r \in 1..Len(plan) |-> [i \in 1..Len(plan[r]) |-> Pending]]

\* the caller makes the calls of the next round
Call ==
  /\ \A i \in Slots : q[i].pc = "idle"
  /\ round < Len(plan)
  /\ round' = round + 1
  /\ q' = [i \in Slots |-> IF i <= Len(plan[round + 1])
                           THEN Fresh(plan[round + 1][i]) ELSE Idle]
  /\ UNCHANGED <<version, total_bytes, plan, ret>>

\* straw and getSize up to the region: the unit check, the open (over HTTP the
\* fetch of the first 100000 bytes), readHeader, the two region descriptors
Header(i) ==
  /\ q[i].pc = "header"
  /\ LET L == q[i]
         a == L.args
         fd == a.fname.file
         isHttp == a.fname.prefix = "http"
         region(h, g) ==
           /\ q' = [q EXCEPT ![i] =
                      [L EXCEPT !.pc = "footer",
                                !.reads = <<"header">>,
                                !.isHttp = isHttp,
                                !.master = h.master,
                                !.c1 = g.c1, !.c2 = g.c2,
                                !.origRegionIndices = g.origRegionIndices,
                                !.regionIndices = g.regionIndices]]
           /\ UNCHANGED ret
         read(h) ==
           /\ version' = h.version
           /\ total_bytes' = IF isHttp THEN hdf(fd) ELSE total_bytes
           /\ IF ~HasChrom(h.chromosomeMap, a.chr1loc[1])
                 \/ ~HasChrom(h.chromosomeMap, a.chr2loc[1])
              THEN Finish(i, Returned(L, <<>>, 0))
              ELSE region(h, Regions(h.chromosomeMap, a.chr1loc, a.chr2loc,
                                     a.binsize))
     IN  IF ~(a.unit = BP \/ a.unit = FRAG)
         THEN Finish(i, Returned(L, <<>>, 0)) /\ UNCHANGED <<version, total_bytes>>
         ELSE read(readHeader(fd, version))
  /\ UNCHANGED <<plan, round>>

\* the footer: over HTTP one range request of total_bytes - master bytes from
\* the master pointer, on a local file a seek to it; then readFooter
Footer(i) ==
  /\ q[i].pc = "footer"
  /\ LET L == q[i]
         a == L.args
         fd == a.fname.file
         bytes_to_read == total_bytes - L.master
         avail == IF L.isHttp THEN Max2(bytes_to_read, 0)
                  ELSE TotalOf(fd) - L.master
     IN  /\ total_bytes' = IF L.isHttp THEN hdf(fd) ELSE total_bytes
         /\ \E j \in Indeterminate :
              LET read(f) ==
                    LET unset == f.found /\ a.norm # "NONE"
                                 /\ (~f.found1 \/ ~f.found2)
                    IN  /\ unset \/ j = 0
                        /\ IF ~f.found
                           THEN Finish(i, Returned(L, <<>>, 0))
                           ELSE /\ q' = [q EXCEPT ![i] =
                                           [L EXCEPT !.pc = "norm",
                                                     !.reads = Append(@, "footer"),
                                                     !.footerRead =
                                                       IF L.isHttp THEN avail
                                                       ELSE f.end,
                                                     !.myFilePos = f.myFilePos,
                                                     !.c1NormEntry = f.c1NormEntry,
                                                     !.c2NormEntry = f.c2NormEntry]]
                                /\ UNCHANGED ret
              IN  read(readFooter(fd, avail, L.c1, L.c2, a.norm, a.unit,
                                  a.binsize, j))
  /\ UNCHANGED <<version, plan, round>>

\* the two normalization vectors, read when norm is not NONE.  An index entry
\* that readFooter left unset names no vector of the file: the read then
\* throws (a negative size) or yields a vector of indeterminate content, kept
\* here as the empty vector, whose every entry reads as indeterminate.
Norm(i) ==
  /\ q[i].pc = "norm"
  /\ LET L == q[i]
         a == L.args
         fd == a.fname.file
         vec(at, e) == IF at = <<>> THEN <<>> ELSE readNormalizationVector(fd, e)
         read(at1, at2) ==
           IF (at1 = <<>> /\ L.c1NormEntry.size < 0)
              \/ (at2 = <<>> /\ L.c2NormEntry.size < 0)
           THEN Finish(i, Aborted("throw"))
           ELSE /\ q' = [q EXCEPT ![i] =
                           [L EXCEPT !.pc = "matrix",
                                     !.reads = @ \o <<"c1Norm", "c2Norm">>,
                                     !.c1Norm = vec(at1, L.c1NormEntry),
                                     !.c2Norm = vec(at2, L.c2NormEntry)]]
                /\ UNCHANGED ret
     IN  IF a.norm = "NONE"
         THEN /\ q' = [q EXCEPT ![i] = [L EXCEPT !.pc = "matrix"]]
              /\ UNCHANGED <<ret, total_bytes>>
         ELSE /\ total_bytes' = IF L.isHttp THEN hdf(fd) ELSE total_bytes
              /\ read(NormAt(fd, L.c1NormEntry), NormAt(fd, L.c2NormEntry))
  /\ UNCHANGED <<version, plan, round>>

\* whether some zoom level of the file has this unit and bin size
HasLevel(fd, unit, binsize) ==
  \E k \in 1..Len(fd.lv) : fd.lv[k].unit = unit /\ fd.lv[k].binSize = binsize

\* readMatrix or readMatrixHttp, then getBlockNumbersForRegionFromBinPosition.
\* blockBinCount and blockColumnCount are declared without a value: when no
\* level matches they keep indeterminate values j1, j2, and the division by a
\* blockBinCount of 0 ends the process.
Matrix(i) ==
  /\ q[i].pc = "matrix"
  /\ LET L == q[i]
         a == L.args
         fd == a.fname.file
     IN  /\ total_bytes' = IF L.isHttp THEN hdf(fd) ELSE total_bytes
         /\ \E j1 \in Indeterminate, j2 \in Indeterminate :
              LET select(m, blockNumbers) ==
                    IF blockNumbers = <<>>
                    THEN Finish(i, Returned(L, <<>>, 0))
                    ELSE /\ q' = [q EXCEPT ![i] =
                                    [L EXCEPT !.pc = "blocks",
                                              !.reads = Append(@, "matrix"),
                                              !.blockMap = m.blockMap,
                                              !.blockBinCount = m.blockBinCount,
                                              !.blockColumnCount = m.blockColumnCount,
                                              !.blockNumbers = blockNumbers]]
                         /\ UNCHANGED ret
                  read(m) ==
                    /\ ~m.found \/ (j1 = 0 /\ j2 = 0)
                    /\ IF m.blockBinCount = 0
                       THEN Finish(i, Aborted("crash"))
                       ELSE select(m, SortInts(getBlockNumbersForRegionFromBinPosition(
                                                 L.regionIndices, m.blockBinCount,
                                                 m.blockColumnCount, L.c1 = L.c2)))
              IN  read(IF L.isHttp
                       THEN readMatrixHttp(fd, L.myFilePos, a.unit, a.binsize, j1, j2)
                       ELSE readMatrix(fd, L.myFilePos, a.unit, a.binsize, j1, j2))
  /\ UNCHANGED <<version, plan, round>>

\* the bytes the block of index entry idx inflates to (none when it is empty)
PayloadOf(fd, idx) == IF idx.size = 0 THEN <<>> ELSE BlockAt(fd, idx.position)

\* one turn of the loop of straw over blockNumbers: readBlock, which decodes
\* by the file-scope version as it is now, and the filter over its records.
\* Undefined behaviour (an indeterminate value, an overflow, an access out of
\* bounds) either goes on with the values computed or ends the process.
Blocks(i) ==
  /\ LET L == q[i]
         fd == L.args.fname.file
         push(idx, records) ==
           IF Len(L.blockNumbers) = 1
           THEN Finish(i, Returned(L, records, 0))
           ELSE /\ q' = [q EXCEPT ![i] =
                           [L EXCEPT !.blockNumbers = Tail(@),
                                     !.reads = IF idx.size = 0 THEN @
                                               ELSE Append(@, "block"),
                                     !.records = records]]
                /\ UNCHANGED ret
         read(idx) ==
           /\ total_bytes' = IF L.isHttp /\ idx.size # 0 THEN hdf(fd) ELSE total_bytes
           /\ \E j \in Indeterminate, dies \in BOOLEAN :
                LET filter(d) ==
                      LET undef == d.fault = "ub" \/ EmitUndefined(L, d.v)
                      IN  /\ undef \/ (j = 0 /\ ~dies)
                          /\ IF d.fault = "throw" THEN Finish(i, Aborted("throw"))
                             ELSE IF dies THEN Finish(i, Aborted("crash"))
                             ELSE push(idx, L.records \o EmitRecords(L, d.v, 1, j))
                IN  filter(readBlock(version, idx.size, PayloadOf(fd, idx), j))
     IN  read(EntryOf(L.blockMap, Head(L.blockNumbers)))
  /\ UNCHANGED <<version, plan, round>>

\* one turn of the loop of getSize over blockNumbers: count += readSize(...)
Sizes(i) ==
  /\ LET L == q[i]
         fd == L.args.fname.file
         read(idx) ==
           /\ total_bytes' = IF L.isHttp /\ idx.size # 0 THEN hdf(fd) ELSE total_bytes
           /\ \E j \in Indeterminate :
                LET add(r) ==
                      /\ r.fault = "ub" \/ j = 0
                      /\ IF Len(L.blockNumbers) = 1
                         THEN Finish(i, Returned(L, <<>>, L.count + r.n))
                         ELSE /\ q' = [q EXCEPT ![i] =
                                         [L EXCEPT !.blockNumbers = Tail(@),
                                                   !.reads = IF idx.size = 0 THEN @
                                                             ELSE Append(@, "block"),
                                                   !.count = L.count + r.n]]
                              /\ UNCHANGED ret
                IN  add(readSize(idx.size, PayloadOf(fd, idx), j))
     IN  read(EntryOf(L.blockMap, Head(L.blockNumbers)))
  /\ UNCHANGED <<version, plan, round>>


\* one turn of the loop over blockNumbers, of straw or of getSize
Loop(i) ==
  /\ q[i].pc = "blocks"
  /\ IF q[i].args.op = "straw" THEN Blocks(i) ELSE Sizes(i)

\* the steps of a call
Step(i) == Header(i) \/ Footer(i) \/ Norm(i) \/ Matrix(i) \/ Loop(i)

Next == Call \/ \E i \in Slots : Step(i)

(***************************************************************************)
(* The files and the calls the model is run on.                            *)
(***************************************************************************)
\* the bins of a chromosome of a generated file, and its cells
Grid == (0..MaxBin) \X (0..MaxBin)

CellSets == {S \in SUBSET Grid : Cardinality(S) <= MaxRecs}

\* one zoom level: 1000-base bins in blocks of 2 x 2 bins
OneLevel ==
  <<[unit |-> BP, binSize |-> 1000, blockBinCount |-> 2,
     blockColumnCount |-> (MaxBin + 1) \div 2 + 1, f |-> 1]>>

\* four zoom levels, the finest base-pair level third
FourLevels ==
  <<[unit |-> BP, binSize |-> 5000, blockBinCount |-> 2, blockColumnCount |-> 1,
     f |-> 5],
    [unit |-> FRAG, binSize |-> 1000, blockBinCount |-> 2,
     blockColumnCount |-> (MaxBin + 1) \div 2 + 1, f |-> 1],
    [unit |-> BP, binSize |-> 1000, blockBinCount |-> 2,
     blockColumnCount |-> (MaxBin + 1) \div 2 + 1, f |-> 1],
    [unit |-> BP, binSize |-> 10000, blockBinCount |-> 2, blockColumnCount |-> 1,
     f |-> 10]>>

\* one zoom level of 1000000-base bins, all in one block
WideLevel ==
  <<[unit |-> BP, binSize |-> 1000000, blockBinCount |-> 5000,
     blockColumnCount |-> 1, f |-> 1]>>

\* the formats a writer uses
V6 == [ver |-> 6, enc |-> "v6", useShort |-> 1]

RowsShort == [ver |-> 8, enc |-> "rows", useShort |-> 0]

RowsFloat == [ver |-> 8, enc |-> "rows", useShort |-> 1]

DenseShort == [ver |-> 8, enc |-> "dense", useShort |-> 0]

DenseFloat == [ver |-> 8, enc |-> "dense", useShort |-> 1]

Formats == {V6, RowsShort, RowsFloat, DenseShort, DenseFloat}

HIC == <<"H", "I", "C">>

File(fmt, lv, cells, norms) ==
  [magic |-> HIC, ver |-> fmt.ver, enc |-> fmt.enc, useShort |-> fmt.useShort,
   len |-> (MaxBin + 1) * 1000 - 1, lv |-> lv, cells |-> cells, norms |-> norms,
   bad |-> {}, damage |-> "none", again |-> <<>>]

\* a file whose one record lies past the end of its 3000000-base chromosomes
WideFile(fmt) ==
  [File(fmt, WideLevel, {<<4295, 4295>>}, {}) EXCEPT !.len = 3000000]

Query(op, norm, prefix, fd, chr1loc, chr2loc, unit, binsize) ==
  [op |-> op, norm |-> norm, fname |-> [prefix |-> prefix, file |-> fd],
   chr1loc |-> chr1loc, chr2loc |-> chr2loc, unit |-> unit, binsize |-> binsize]

\* the ranges asked for: the first bin, all bins but the first, and a range
\* that starts inside a bin
Ranges == {<<0, 999>>, <<1000, 1000 * MaxBin + 999>>, <<1500, 1000 * MaxBin>>}

\* the region descriptors: a chromosome, whole or with a range
Locs ==
  {<<n>> : n \in {"chr1", "chr2"}}
  \cup {<<n, r[1], r[2]>> : n \in {"chr1", "chr2"}, r \in Ranges}

\* a few pairs of descriptors: one chromosome, two, and two in swapped order
FewPairs ==
  {<<<<"chr1">>, <<"chr1">>>>,
   <<<<"chr1", 0, 999>>, <<"chr2">>>>,
   <<<<"chr2">>, <<"chr1", 1000, 1000 * MaxBin + 999>>>>}

\* calls for regions of generated files with one zoom level
RegionQueries ==
  {Query("straw", "NONE", "/dat", File(fmt, OneLevel, S, {}), l1, l2, BP, 1000) :
     fmt \in Formats, S \in CellSets, l1 \in Locs, l2 \in Locs}

\* calls on the file with the record past the end
WideQueries ==
  {Query("straw", "NONE", "/dat", WideFile(fmt), <<"chr1">>, <<"chr1">>, BP,
         1000000) : fmt \in {V6, RowsFloat, DenseFloat}}

\* the units and bin sizes asked of a file with four zoom levels: each of its
\* levels, and a bin size it does not have
Zooms == {<<BP, 1000>>, <<BP, 5000>>, <<BP, 10000>>, <<FRAG, 1000>>, <<BP, 999>>}

\* calls on generated files with four zoom levels, local or over HTTP
ZoomQueries(prefix) ==
  {Query("straw", "NONE", prefix, File(fmt, FourLevels, S, {}), lp[1], lp[2],
         z[1], z[2]) :
     fmt \in {V6, RowsShort}, S \in CellSets, lp \in FewPairs, z \in Zooms}

\* calls on generated files that hold the normalization vectors of both
\* chromosomes
NormQueries(norm) ==
  {Query("straw", norm, "/dat", File(fmt, OneLevel, S, {0, 1}), l1, l2, BP, 1000) :
     fmt \in {V6, RowsFloat}, S \in CellSets, l1 \in Locs, l2 \in Locs}

\* the same call made to getSize
AsSize(a) == [a EXCEPT !.op = "getSize"]

\* the same call with the two region descriptors exchanged
Swapped(a) == [a EXCEPT !.chr1loc = a.chr2loc, !.chr2loc = a.chr1loc]

\* the same call on the same content behind a URL
OverHttp(a) == [a EXCEPT !.fname.prefix = "http"]

\* the same call with a normalization
WithNorm(a, norm) == [a EXCEPT !.norm = norm]

\* one call
Init == InitWith({<<<<a>>>> : a \in RegionQueries \cup WideQueries
                                    \cup ZoomQueries("/dat") \cup ZoomQueries("http")})

Spec == Init /\ [][Next]_vars

\* straw, then getSize with the same arguments
InitSize == InitWith({<<<<a>>, <<AsSize(a)>>>> : a \in RegionQueries})

SpecSize == InitSize /\ [][Next]_vars

\* straw, then straw with the descriptors exchanged
InitSwap == InitWith({<<<<a>>, <<Swapped(a)>>>> : a \in RegionQueries})

SpecSwap == InitSwap /\ [][Next]_vars

\* the calls run twice, with another call in between
TwiceQueries ==
  {a \in RegionQueries : /\ <<a.chr1loc, a.chr2loc>> \in FewPairs
                         /\ a.fname.file.enc # "dense"}
  \cup {a \in ZoomQueries("http") : a.fname.file.ver = 8}

\* the calls made in between: a version 6 file, a version 8 file with a longer
\* footer over HTTP, a file of a version that readHeader refuses, and a file
\* that is no .hic file
Others ==
  {Query("straw", "NONE", "/dat", File(V6, OneLevel, {<<0, 1>>}, {}),
         <<"chr1">>, <<"chr1">>, BP, 1000),
   Query("straw", "VC", "http", File(RowsFloat, OneLevel, {<<0, 1>>}, {0, 1}),
         <<"chr1">>, <<"chr2">>, BP, 1000),
   Query("straw", "NONE", "/dat",
         [File(V6, OneLevel, {}, {}) EXCEPT !.ver = 5],
         <<"chr1">>, <<"chr1">>, BP, 1000),
   Query("straw", "NONE", "http",
         [File(RowsShort, OneLevel, {}, {}) EXCEPT !.magic = <<"G", "I", "F">>],
         <<"chr1">>, <<"chr1">>, BP, 1000)}

\* a call, another call, and the first call again
InitTwice == InitWith({<<<<a>>, <<x>>, <<a>>>> : a \in TwiceQueries, x \in Others})

SpecTwice == InitTwice /\ [][Next]_vars

\* two calls on files of the same content in two formats, each local or over
\* HTTP
ConcPairs ==
  {<<Query("straw", "NONE", p[1], File(f[1], OneLevel, S, {}),
           <<"chr1">>, <<"chr1">>, BP, 1000),
     Query("straw", "NONE", p[2], File(f[2], OneLevel, S, {}),
           <<"chr1">>, <<"chr1">>, BP, 1000)>> :
     f \in {V6, RowsShort} \X {V6, RowsShort},
     p \in {"/dat", "http"} \X {"/dat", "http"}, S \in CellSets}

\* each of two calls alone, then the two interleaved
InitConc == InitWith({<<<<ab[1]>>, <<ab[2]>>, <<ab[1], ab[2]>>>> : ab \in ConcPairs})

SpecConc == InitConc /\ [][Next]_vars

\* a call on a local file, then the same call on the same content over HTTP
InitHttp ==
  InitWith({<<<<a>>, <<OverHttp(a)>>>> :
              a \in ZoomQueries("/dat")
                    \cup {a \in RegionQueries :
                            <<a.chr1loc, a.chr2loc>> \in FewPairs}})

SpecHttp == InitHttp /\ [][Next]_vars

\* a call without normalization, then the same call with VC
InitNorm == InitWith({<<<<a>>, <<WithNorm(a, "VC")>>>> : a \in NormQueries("NONE")})

SpecNorm == InitNorm /\ [][Next]_vars

(***************************************************************************)
(* What the calls of a plan returned.                                      *)
(***************************************************************************)
\* the calls of the plan: round and slot
Calls == {ri \in (1..Len(plan)) \X Slots : ri[2] <= Len(plan[ri[1]])}

ArgsOf(ri) == plan[ri[1]][ri[2]]

Result(ri) == ret[ri[1]][ri[2]]

\* the calls that returned a vector of records
Answered == {ri \in Calls : Result(ri).kind = "records"}

\* the records a call returned, as a set
RecordsOf(ri) == {Result(ri).records[n] : n \in 1..Len(Result(ri).records)}

\* the region a call asks for and its two chromosomes, lower index first
RegionOf(a) == Regions(Chroms(a.fname.file), a.chr1loc, a.chr2loc, a.binsize)

\* whether x, y lie in the rectangle orig
Inside(orig, x, y) ==
  x >= orig[1] /\ x <= orig[2] /\ y >= orig[3] /\ y <= orig[4]

\* the zoom level a call asks for (there is one)
LevelOf(a) ==
  LET fd == a.fname.file
  IN  fd.lv[CHOOSE k \in 1..Len(fd.lv) :
              fd.lv[k].unit = a.unit /\ fd.lv[k].binSize = a.binsize]

\* straw was called and then getSize with the same arguments, and both returned
SizedTwice ==
  /\ Len(plan) = 2
  /\ plan[2][1] = AsSize(plan[1][1])
  /\ ret[1][1].kind = "records"
  /\ ret[2][1].kind = "count"

\* C1 as stated: the number of records straw returns equals the integer
\* getSize returns for the same arguments.
SizeEqualsLength ==
  SizedTwice => Len(ret[1][1].records) = ret[2][1].count

\* C1 amended: getSize returns the number of records stored in the selected
\* blocks, so the number of records straw returns is at most that integer,
\* and equals it when both descriptors name whole chromosomes.
SizeBoundsLength ==
  SizedTwice =>
    /\ Len(ret[1][1].records) <= ret[2][1].count
    /\ (Len(plan[1][1].chr1loc) = 1 /\ Len(plan[1][1].chr2loc) = 1)
         => Len(ret[1][1].records) = ret[2][1].count

\* C1 witness: the region covers part of a selected block, and getSize counts
\* a record that straw does not return.
SizeExceedsLength ==
  /\ SizedTwice
  /\ Len(plan[1][1].chr1loc) = 3
  /\ ret[2][1].count > Len(ret[1][1].records)

\* C2: every record straw returns lies inside the requested region, or, only
\* when both chromosomes are the same, inside the mirrored region; for two
\* different chromosomes the mirrored case admits no record.
InsideRegion ==
  \A ri \in Answered : \A rec \in RecordsOf(ri) :
     LET g == RegionOf(ArgsOf(ri))
     IN  \/ Inside(g.origRegionIndices, rec.binX, rec.binY)
         \/ /\ g.c1 = g.c2
            /\ Inside(g.origRegionIndices, rec.binY, rec.binX)

\* C2 witness: a call for two different chromosomes selected the block of a
\* stored cell that lies in the mirrored region only, and returned no record.
MirrorRejected ==
  \E ri \in Answered :
     LET a == ArgsOf(ri)
         g == RegionOf(a)
         lvl == LevelOf(a)
     IN  /\ a.unit = BP /\ a.binsize = 1000 /\ a.fname.file.lv = OneLevel
         /\ g.c1 # g.c2
         /\ Result(ri).records = <<>>
         /\ \E c \in a.fname.file.cells :
               /\ Inside(g.origRegionIndices, 1000 * c[2], 1000 * c[1])
               /\ ~Inside(g.origRegionIndices, 1000 * c[1], 1000 * c[2])
               /\ BlockOf(lvl, c) \in getBlockNumbersForRegionFromBinPosition(
                                        g.regionIndices, lvl.blockBinCount,
                                        lvl.blockColumnCount, FALSE)

\* straw was called and then straw with the two descriptors exchanged, and
\* both returned
SwappedTwice ==
  /\ Len(plan) = 2
  /\ plan[2][1] = Swapped(plan[1][1])
  /\ ret[1][1].kind = "records"
  /\ ret[2][1].kind = "records"

\* C3 as stated: the call with chr1loc and chr2loc swapped returns the records
\* of the unswapped call with binX and binY exchanged in each.
SwapTransposes ==
  SwappedTwice =>
    RecordsOf(<<2, 1>>)
      = {[binX |-> rec.binY, binY |-> rec.binX, counts |-> rec.counts] :
           rec \in RecordsOf(<<1, 1>>)}

\* C3 amended: the call with chr1loc and chr2loc swapped returns the very
\* records of the unswapped call, in the same order: binX stays the
\* coordinate on the chromosome with the lower index.
SwapReturnsSame ==
  SwappedTwice => ret[2][1].records = ret[1][1].records

\* C3 witness: the two descriptors differ and the calls returned a record
\* with different binX and binY.
SwapOffDiagonal ==
  /\ SwappedTwice
  /\ plan[1][1].chr1loc[1] # plan[1][1].chr2loc[1]
  /\ \E rec \in RecordsOf(<<2, 1>>) : rec.binX # rec.binY

\* the calls with two equal descriptors that returned
EqualDescriptors == {ri \in Answered : ArgsOf(ri).chr1loc = ArgsOf(ri).chr2loc}

\* C4 as stated: for an intrachromosomal call with two equal descriptors,
\* every returned record lies on the diagonal or has its transposed
\* counterpart among the returned records.
MirrorReturned ==
  \A ri \in EqualDescriptors : \A rec \in RecordsOf(ri) :
     \/ rec.binX = rec.binY
     \/ \E other \in RecordsOf(ri) :
           other.binX = rec.binY /\ other.binY = rec.binX

\* C4 amended: for an intrachromosomal call with two equal descriptors on a
\* file that stores the upper triangle, every returned record has
\* binX <= binY, and no record off the diagonal has its transposed
\* counterpart among the returned records.
UpperTriangleReturned ==
  \A ri \in EqualDescriptors : \A rec \in RecordsOf(ri) :
     /\ rec.binX <= rec.binY
     /\ rec.binX # rec.binY =>
          ~\E other \in RecordsOf(ri) :
              other.binX = rec.binY /\ other.binY = rec.binX

\* C4 witness: such a call returned a record off the diagonal.
OffDiagonalReturned ==
  \E ri \in EqualDescriptors : \E rec \in RecordsOf(ri) : rec.binX < rec.binY

\* C5 as stated: every binX and binY straw returns is an exact multiple of
\* binsize, whatever the stored bin index and the positive binsize.
ExactMultiples ==
  \A ri \in Answered : \A rec \in RecordsOf(ri) :
     /\ rec.binX % ArgsOf(ri).binsize = 0
     /\ rec.binY % ArgsOf(ri).binsize = 0

\* a call was made, another call, and the first call again, and neither run of
\* the first call ended with the process
RanTwice ==
  /\ Len(plan) = 3
  /\ plan[3][1] = plan[1][1]
  /\ ret[1][1].kind \in {"records", "throw"}
  /\ ret[3][1].kind \in {"records", "throw"}

\* C6: straw run twice in sequence with the same inputs returns the same
\* sequence of records, whatever call (local or over HTTP, on another file,
\* of another version) ran in between: the version and total_bytes that call
\* left change nothing.
RepeatIdentical == RanTwice => ret[3][1] = ret[1][1]

\* C6 witness: the call in between was on a file of another version, and the
\* second run returned records.
RepeatAfterOther ==
  /\ RanTwice
  /\ plan[2][1].fname.file.ver # plan[1][1].fname.file.ver
  /\ ret[2][1].kind = "records"
  /\ ret[3][1].records # <<>>

\* two calls were made alone and then interleaved, and all four ended
RanInterleaved ==
  /\ Len(plan) = 3
  /\ plan[3] = <<plan[1][1], plan[2][1]>>
  /\ \A ri \in Calls : Result(ri).kind # "pending"

\* C7 as stated: two calls that run interleaved each return exactly what they
\* return when run alone.
InterleavedAsAlone ==
  RanInterleaved => ret[3][1] = ret[1][1] /\ ret[3][2] = ret[2][1]

\* a call was made on a local file and then on the same content over HTTP, and
\* neither ended with the process
RanBothPaths ==
  /\ Len(plan) = 2
  /\ plan[1][1].fname.prefix = "/dat"
  /\ plan[2][1] = OverHttp(plan[1][1])
  /\ ret[1][1].kind \in {"records", "throw"}
  /\ ret[2][1].kind \in {"records", "throw"}

\* C8: the call through the local path and the call through the HTTP path
\* return the same records for the same content, bin size, unit, norm and
\* region, also when the matching zoom level is not the first of the matrix.
HttpAsLocal == RanBothPaths => ret[2][1] = ret[1][1]

\* C8 witness: the matching level is the third of four, after a level with
\* the unit FRAG, and the HTTP call returned records.
HttpThirdLevel ==
  /\ RanBothPaths
  /\ plan[2][1].fname.file.lv = FourLevels
  /\ plan[2][1].unit = BP /\ plan[2][1].binsize = 1000
  /\ ret[2][1].records # <<>>

\* a call was made without normalization and then with VC, and both returned
RanBothNorms ==
  /\ Len(plan) = 2
  /\ plan[1][1].norm = "NONE"
  /\ plan[2][1] = WithNorm(plan[1][1], "VC")
  /\ ret[1][1].kind = "records"
  /\ ret[2][1].kind = "records"

\* C9: on a file with the normalization vectors of both chromosomes, the call
\* with a normalization returns as many records as the call with NONE, at the
\* same coordinates, and each count is the NONE count over
\* c1Norm[binX index] * c2Norm[binY index], c1Norm being the vector of the
\* chromosome with the lower index, also when the caller named it second.
NormDivides ==
  RanBothNorms =>
    LET a == plan[1][1]
        g == RegionOf(a)
        none == ret[1][1].records
        vc == ret[2][1].records
    IN  /\ Len(vc) = Len(none)
        /\ \A n \in 1..Len(none) :
              /\ vc[n].binX = none[n].binX
              /\ vc[n].binY = none[n].binY
              /\ vc[n].counts
                   = <<none[n].counts[1],
                       NormValue(g.c1, none[n].binX \div a.binsize)
                       * NormValue(g.c2, none[n].binY \div a.binsize)>>

\* C9 witness: the caller named the chromosome with the higher index first,
\* and the call with VC returned a record.
NormSwappedOrder ==
  /\ RanBothNorms
  /\ plan[1][1].chr1loc[1] = "chr2"
  /\ plan[1][1].chr2loc[1] = "chr1"
  /\ ret[2][1].records # <<>>

\* C10 as stated: a call whose (unit, binsize) no zoom level of the selected
\* matrix matches selects no blocks and ends with a not-found error.
NoLevelAborts ==
  /\ \A i \in Slots :
        q[i].pc = "blocks" =>
          HasLevel(q[i].args.fname.file, q[i].args.unit, q[i].args.binsize)
  /\ \A ri \in Calls :
        LET a == ArgsOf(ri)
        IN  (/\ Result(ri).kind # "pending"
             /\ PairIdx(<<RegionOf(a).c1, RegionOf(a).c2>>) # 0
             /\ ~HasLevel(a.fname.file, a.unit, a.binsize))
            => Result(ri).kind = "throw"

(***************************************************************************)
(* Files that readHeader refuses.                                          *)
(***************************************************************************)
\* magic strings that do not start with H, I, C
BadMagics ==
  {<<>>, <<"H">>, <<"H", "I">>, <<"H", "I", "X">>, <<"G", "I", "F">>,
   <<"h", "i", "c">>}

\* files with such a magic string, and files of a version below 6
BadFiles ==
  {[File(fmt, OneLevel, {<<0, 1>>}, {0, 1}) EXCEPT !.magic = m] :
     fmt \in {V6, RowsShort}, m \in BadMagics}
  \cup {[File(fmt, OneLevel, {<<0, 1>>}, {0, 1}) EXCEPT !.ver = v] :
          fmt \in {V6, RowsShort}, v \in {-1, 0, 5}}

\* the chromosome names asked for: two the files have, two they have not
Names == {"chr1", "chr2", "chrX", ""}

\* calls on the files readHeader refuses, and on files it accepts: with the
\* magic string HIC and with a longer one that starts with it
HeaderQueries ==
  {Query(op, norm, prefix, fd, <<n1>>, <<n2>>, BP, 1000) :
     op \in {"straw", "getSize"}, norm \in {"NONE", "VC"},
     prefix \in {"/dat", "http"}, fd \in BadFiles, n1 \in Names, n2 \in Names}
  \cup {Query(op, "VC", "/dat", fd, <<n1>>, <<n2>>, BP, 1000) :
          op \in {"straw", "getSize"},
          fd \in {File(V6, OneLevel, {<<0, 1>>}, {0, 1}),
                  [File(RowsShort, OneLevel, {<<0, 1>>}, {0, 1})
                     EXCEPT !.magic = <<"H", "I", "C", "X">>]},
          n1 \in Names, n2 \in Names}

InitHeader == InitWith({<<<<a>>>> : a \in HeaderQueries})

SpecHeader == InitHeader /\ [][Next]_vars

\* whether the magic string of fd starts with H, I, C and its version is 6 or
\* above
Supported(fd) ==
  /\ Len(fd.magic) >= 3
  /\ fd.magic[1] = "H" /\ fd.magic[2] = "I" /\ fd.magic[3] = "C"
  /\ fd.ver >= 6

\* C11: a call on a file whose magic string does not start with H, I, C or
\* whose version is below 6 goes no further than the header (no read of the
\* footer, of a normalization vector, of a matrix or of a block) and ends
\* with no records, whatever chromosome names it asks for.
HeaderRefuses ==
  /\ \A i \in Slots :
        q[i].pc \in {"footer", "norm", "matrix", "blocks"}
          => Supported(q[i].args.fname.file)
  /\ \A ri \in Calls :
        (~Supported(ArgsOf(ri).fname.file) /\ Result(ri).kind # "pending")
          => /\ Result(ri).kind \in {"records", "count"}
             /\ Result(ri).records = <<>>
             /\ Result(ri).count = 0

\* C11 witness: a call that names two chromosomes every generated file has
\* ended on a file with a magic string of one character H.
RefusedShortMagic ==
  \E ri \in Calls :
     /\ ArgsOf(ri).fname.file.magic = <<"H">>
     /\ ArgsOf(ri).chr1loc = <<"chr1">> /\ ArgsOf(ri).chr2loc = <<"chr2">>
     /\ Result(ri).kind = "records"

(***************************************************************************)
(* Files with the normalization vector of one chromosome only.             *)
(***************************************************************************)
\* calls for two different chromosomes on generated files whose footer
\* indexes the VC vector of one of them
OneSideQueries ==
  {Query("straw", "NONE", prefix, File(fmt, OneLevel, S, {chr}), lp[1], lp[2],
         BP, 1000) :
     prefix \in {"/dat", "http"}, fmt \in {V6, RowsFloat}, S \in CellSets,
     chr \in {0, 1},
     lp \in {<<<<"chr1">>, <<"chr2">>>>, <<<<"chr2">>, <<"chr1">>>>,
             <<<<"chr1", 0, 999>>, <<"chr2">>>>}}

\* a call without normalization, then the same call with VC
InitOneSide == InitWith({<<<<a>>, <<WithNorm(a, "VC")>>>> : a \in OneSideQueries})

SpecOneSide == InitOneSide /\ [][Next]_vars

\* C12 as stated: when the footer indexes the vector of one of the two
\* chromosomes only, the call with a normalization still returns the records
\* of the call with NONE, each count divided by the value of the side that
\* is there and by nothing else.
MissingSideIdentity ==
  (/\ Len(plan) = 2
   /\ ret[1][1].kind = "records"
   /\ ret[2][1].kind # "pending")
  => LET a == plan[1][1]
         g == RegionOf(a)
         none == ret[1][1].records
         vc == ret[2][1].records
         side(rec) ==
           IF g.c1 \in a.fname.file.norms
           THEN NormValue(g.c1, rec.binX \div a.binsize)
           ELSE NormValue(g.c2, rec.binY \div a.binsize)
     IN  /\ ret[2][1].kind = "records"
         /\ Len(vc) = Len(none)
         /\ \A n \in 1..Len(none) :
               /\ vc[n].binX = none[n].binX
               /\ vc[n].binY = none[n].binY
               /\ vc[n].counts = <<none[n].counts[1], side(none[n])>>

(***************************************************************************)
(* Files with a damaged block.                                             *)
(***************************************************************************)
\* generated files with cells in the first block and in another, the block
\* of the cell c damaged
DamagedFiles ==
  {[File(fmt, OneLevel, S, {}) EXCEPT !.bad = {BlockOf(OneLevel[1], c)},
                                      !.damage = dmg] :
     fmt \in Formats,
     S \in {{<<0, 0>>}, {<<0, 0>>, <<2, 2>>}, {<<0, 0>>, <<1, 1>>}},
     c \in {<<0, 0>>, <<2, 2>>},
     dmg \in {"inflate", "truncated", "type", "more", "fewer"}}

\* calls for a whole chromosome and for its first bin on those files
DamagedQueries ==
  {Query(op, "NONE", prefix, fd, l, l, BP, 1000) :
     op \in {"straw", "getSize"}, prefix \in {"/dat", "http"},
     fd \in DamagedFiles, l \in {<<"chr1">>, <<"chr1", 0, 999>>}}

InitDamaged == InitWith({<<<<a>>>> : a \in DamagedQueries})

SpecDamaged == InitDamaged /\ [][Next]_vars

\* whether the call selects a damaged block that the block map holds and
\* whose damage changes what inflate leaves
Touches(a) ==
  LET fd == a.fname.file
      g == RegionOf(a)
      lvl == LevelOf(a)
  IN  /\ fd.damage \in {"inflate", "truncated"} \/ (fd.damage = "type" /\ fd.ver >= 7)
      /\ fd.bad \cap BlockSet(fd, PairIdx(<<g.c1, g.c2>>), 1)
           \cap getBlockNumbersForRegionFromBinPosition(
                  g.regionIndices, lvl.blockBinCount, lvl.blockColumnCount,
                  g.c1 = g.c2) # {}

\* C13 as stated: when a selected block fails to inflate, has a truncated
\* payload or carries a block type other than 1 or 2, the call emits no
\* record at all: none of that block and none of the blocks before it.
DamagedBlockEmitsNothing ==
  \A ri \in Answered : Touches(ArgsOf(ri)) => Result(ri).records = <<>>

(***************************************************************************)
(* The order of the reads of one call.                                     *)
(***************************************************************************)
\* single calls, without and with a normalization, on a local file and
\* behind a URL
InitOrder ==
  InitWith({<<<<b>>>> : b \in UNION {{a, OverHttp(a), WithNorm(a, "VC"),
                                       WithNorm(OverHttp(a), "VC")} :
                                        a \in NormQueries("NONE")}})

SpecOrder == InitOrder /\ [][Next]_vars

\* the place of a read in the order header, footer, vector of c1, vector of
\* c2, matrix index, blocks
ReadRank(what) ==
  CASE what = "header" -> 1
    [] what = "footer" -> 2
    [] what = "c1Norm" -> 3
    [] what = "c2Norm" -> 4
    [] what = "matrix" -> 5
    [] what = "block" -> 6

\* each kind of read but the blocks' happens once, and in that order
Ordered(reads) ==
  \A m, n \in 1..Len(reads) :
    m < n => \/ ReadRank(reads[m]) < ReadRank(reads[n])
             \/ (reads[m] = "block" /\ reads[n] = "block")

\* the slots whose call has read the footer
PastFooter == {i \in Slots : q[i].pc \in {"norm", "matrix", "blocks"}}

\* C14 as stated, its last part: when norm is NONE the read of the footer
\* takes no byte after the matrix-offset entries from the file or URL.
FooterReadStopsAtList ==
  \A i \in PastFooter :
    q[i].args.norm = "NONE" => q[i].footerRead <= FooterListSize(q[i].args.fname.file)

\* C14, amended: the reads of a call happen in the order header, footer,
\* vector of c1, vector of c2, matrix index, blocks; when norm is NONE no
\* vector is read and, on a local file, the read of the footer stops at the
\* end of the matrix-offset entries (over HTTP one range request fetches the
\* footer to the end of the file).
ReadsInOrder ==
  /\ \A i \in Slots : q[i].pc # "idle" =>
        /\ Ordered(q[i].reads)
        /\ q[i].pc = "matrix" =>
              q[i].reads = IF q[i].args.norm = "NONE" THEN <<"header", "footer">>
                           ELSE <<"header", "footer", "c1Norm", "c2Norm">>
        /\ q[i].args.norm = "NONE" =>
              \A n \in 1..Len(q[i].reads) : q[i].reads[n] \notin {"c1Norm", "c2Norm"}
  /\ \A i \in PastFooter :
        q[i].args.norm = "NONE" /\ ~q[i].isHttp =>
          q[i].footerRead = FooterListSize(q[i].args.fname.file)

\* a call without normalization on a local file that holds normalization
\* vectors has read a block and goes on with the next
SecondBlockUnnormalized ==
  \E i \in Slots :
    /\ q[i].pc = "blocks" /\ q[i].args.norm = "NONE" /\ ~q[i].isHttp
    /\ q[i].args.fname.file.norms # {}
    /\ q[i].reads = <<"header", "footer", "matrix", "block">>

(***************************************************************************)
(* The blocks selected for a region.                                       *)
(***************************************************************************)
\* calls for regions that end before, at and after the edge of a block, on
\* files whose one zoom level has blocks of 1 x 1, 2 x 2 or 3 x 3 bins
TileQueries ==
  {Query("straw", "NONE", "/dat",
         File(fmt,
              <<[OneLevel[1] EXCEPT !.blockBinCount = n,
                                    !.blockColumnCount = MaxBin \div n + 1]>>,
              S, {}),
         l1, l2, BP, 1000) :
     fmt \in {V6, RowsFloat, DenseShort}, n \in 1..3, S \in CellSets,
     l1 \in {<<"chr1">>, <<"chr1", 0, 999>>, <<"chr1", 0, 1999>>,
             <<"chr1", 1000, 1999>>, <<"chr1", 2000, 2999>>},
     l2 \in {<<"chr1">>, <<"chr2">>, <<"chr1", 0, 999>>, <<"chr2", 0, 1999>>,
             <<"chr1", 1000, 1999>>, <<"chr1", 2000, 2999>>}}

InitTiles == InitWith({<<<<a>>>> : a \in TileQueries})

SpecTiles == InitTiles /\ [][Next]_vars

\* the rows (or columns) of tiles that hold at least one of the bins lo..hi
TilesOver(blockBinCount, lo, hi) ==
  {t \in 0..(hi + 1) : \E bin \in lo..hi :
     bin >= t * blockBinCount /\ bin <= t * blockBinCount + blockBinCount - 1}

\* the numbers r * blockColumnCount + c of the blocks whose tile holds a bin of
\* the region of columns x1..x2 and rows y1..y2 or, when intra, of its mirror
Cover(x1, x2, y1, y2, blockBinCount, blockColumnCount, intra) ==
  {r * blockColumnCount + c : r \in TilesOver(blockBinCount, y1, y2),
                               c \in TilesOver(blockBinCount, x1, x2)}
  \cup (IF intra
        THEN {r * blockColumnCount + c : r \in TilesOver(blockBinCount, x1, x2),
                                         c \in TilesOver(blockBinCount, y1, y2)}
        ELSE {})

\* the blocks whose tile holds a bin of the region of a slot
CoverOf(L, blockBinCount, blockColumnCount) ==
  Cover(L.regionIndices[1], L.regionIndices[2], L.regionIndices[3],
        L.regionIndices[4], blockBinCount, blockColumnCount, L.c1 = L.c2)

\* the same for the region with one more bin after its last column and row
WiderCoverOf(L, blockBinCount, blockColumnCount) ==
  Cover(L.regionIndices[1], L.regionIndices[2] + 1, L.regionIndices[3],
        L.regionIndices[4] + 1, blockBinCount, blockColumnCount, L.c1 = L.c2)

\* the block numbers a slot has selected, when it has just selected them
Selected(L) == {L.blockNumbers[n] : n \in 1..Len(L.blockNumbers)}

\* C15 as stated: getBlockNumbersForRegionFromBinPosition returns exactly the
\* blocks whose tile holds at least one bin of the region or, when intra, of
\* the mirrored region.
SelectsMinimumCover ==
  [][\A i \in Slots :
       q[i].pc = "matrix" /\ q'[i].pc = "blocks" =>
         Selected(q'[i]) = CoverOf(q[i], q'[i].blockBinCount, q'[i].blockColumnCount)]_vars

\* C15, amended: getBlockNumbersForRegionFromBinPosition returns exactly the
\* blocks whose tile holds at least one bin of the region taken with one more
\* bin after its last column and after its last row or, when intra, of the
\* mirror of that; this set holds every block with a bin of the region.
SelectsWiderCover ==
  [][\A i \in Slots :
       q[i].pc = "matrix" /\ q'[i].pc = "blocks" =>
         /\ Selected(q'[i])
              = WiderCoverOf(q[i], q'[i].blockBinCount, q'[i].blockColumnCount)
         /\ CoverOf(q[i], q'[i].blockBinCount, q'[i].blockColumnCount)
              \subseteq Selected(q'[i])]_vars

\* a call has selected a block whose tile holds no bin of its region
SelectedBesideRegion ==
  \E i \in Slots :
    /\ q[i].pc = "blocks"
    /\ \E b \in Selected(q[i]) :
         b \notin CoverOf(q[i], q[i].blockBinCount, q[i].blockColumnCount)

(***************************************************************************)
(* The records of a region.                                                *)
(***************************************************************************)
\* the records of the level and pair of call a that satisfy its emit
\* condition, as straw returns them: in bases, the count not normalized
StoredInside(a) ==
  LET fd == a.fname.file
      g == RegionOf(a)
      k == CHOOSE k \in 1..Len(fd.lv) :
             fd.lv[k].unit = a.unit /\ fd.lv[k].binSize = a.binsize
  IN  {[binX |-> c[1] * a.binsize, binY |-> c[2] * a.binsize,
        counts |-> <<ShortToFloat(CountOf(k, c[1], c[2])), 1>>] :
         c \in {c \in LevelCells(fd, <<g.c1, g.c2>>, k) :
                  Emits(g.origRegionIndices, g.c1 = g.c2,
                        c[1] * a.binsize, c[2] * a.binsize)}}

\* C16: every stored record of the level asked for that satisfies the emit
\* condition of the region lies in a selected block and is returned, and no
\* other record is, however the region lies on the blocks; so the records of
\* a region A inside a region B are the records of B that satisfy the emit
\* condition of A.
ReturnsStoredInside ==
  \A ri \in Answered : RecordsOf(ri) = StoredInside(ArgsOf(ri))

\* a call returned a record that only the mirrored condition lets through,
\* from a region that ends at the edge of a block
MirroredAcrossBlocks ==
  \E ri \in Answered :
    LET a == ArgsOf(ri)
        g == RegionOf(a)
    IN  /\ (g.regionIndices[2] + 1) % LevelOf(a).blockBinCount = 0
        /\ \E r \in RecordsOf(ri) :
              ~Inside(g.origRegionIndices, r.binX, r.binY)

(***************************************************************************)
(* Each record once.                                                       *)
(***************************************************************************)
\* the selected blocks the loop of a slot has gone through
Done(L) == WiderCoverOf(L, L.blockBinCount, L.blockColumnCount) \ Selected(L)

\* how many blocks a slot has read
BlockReads(L) == Cardinality({n \in 1..Len(L.reads) : L.reads[n] = "block"})

\* C17: each stored record is emitted at most once, also when both the direct
\* and the mirrored condition hold for it; each selected block number is
\* decoded once, also when the direct and the mirrored rectangle of blocks
\* overlap; a selected block that the block map does not hold causes no read
\* and contributes no record.
EmittedOnce ==
  /\ \A ri \in Answered : Len(Result(ri).records) = Cardinality(RecordsOf(ri))
  /\ \A i \in Slots : q[i].pc = "blocks" =>
        LET L == q[i]
            lvl == LevelOf(L.args)
        IN  /\ \A m, n \in 1..Len(L.blockNumbers) :
                  m # n => L.blockNumbers[m] # L.blockNumbers[n]
            /\ BlockReads(L) = Cardinality(Done(L) \cap DOMAIN L.blockMap)
            /\ Len(L.records) = Cardinality({L.records[n] : n \in 1..Len(L.records)})
            /\ \A n \in 1..Len(L.records) :
                  BlockOf(lvl, <<L.records[n].binX \div L.args.binsize,
                                 L.records[n].binY \div L.args.binsize>>)
                    \in Done(L) \cap DOMAIN L.blockMap

\* a call on one chromosome returned a record of the diagonal, for which the
\* direct and the mirrored condition both hold, having selected blocks that
\* the block map does not hold
DiagonalOnceBesideAbsent ==
  \E ri \in Answered :
    LET a == ArgsOf(ri)
        g == RegionOf(a)
        lvl == LevelOf(a)
    IN  /\ g.c1 = g.c2
        /\ \E r \in RecordsOf(ri) :
              /\ r.binX = r.binY
              /\ Inside(g.origRegionIndices, r.binX, r.binY)
        /\ Len(Result(ri).records) = 1
        /\ \E b \in Cover(g.regionIndices[1], g.regionIndices[2], g.regionIndices[3],
                           g.regionIndices[4], lvl.blockBinCount,
                           lvl.blockColumnCount, TRUE) :
              b \notin BlockSet(a.fname.file, PairIdx(<<g.c1, g.c2>>), 1)

(***************************************************************************)
(* A key that the footer lists twice.                                      *)
(***************************************************************************)
\* single calls on generated files whose footer lists the key of one pair a
\* second time, with the position of the matrix of the other pair
InitAgain ==
  InitWith({<<<<Query(op, "NONE", prefix,
                      [File(fmt, OneLevel, S, {}) EXCEPT !.again = <<ag>>],
                      <<"chr1">>, l2, BP, 1000)>>>> :
              op \in {"straw", "getSize"}, prefix \in {"/dat", "http"},
              fmt \in {V6, RowsFloat}, S \in CellSets,
              ag \in {<<1, 2>>, <<2, 1>>, <<1, 1>>},
              l2 \in {<<"chr1">>, <<"chr2">>, <<"chr2", 0, 999>>}})

SpecAgain == InitAgain /\ [][Next]_vars

\* the entries of the footer of the file of a slot that have the key of its
\* pair of chromosomes
Matching(L) ==
  LET es == FooterEntries(L.args.fname.file)
  IN  {n \in 1..Len(es) : es[n].key = MatrixKey(L.c1, L.c2)}

\* C18 as stated: when the footer lists the key of the pair more than once,
\* readFooter sets the matrix offset to the position of the first entry with
\* that key.
FirstEntryWins ==
  \A i \in PastFooter :
    q[i].myFilePos
      = FooterEntries(q[i].args.fname.file)[MinOf(Matching(q[i]))].fpos

\* C18, amended: when the footer lists the key of the pair more than once,
\* readFooter sets the matrix offset to the position of the last entry with
\* that key; every later match overwrites the earlier one.
LastEntryWins ==
  \A i \in PastFooter :
    q[i].myFilePos
      = FooterEntries(q[i].args.fname.file)[MaxOf(Matching(q[i]))].fpos

\* a call has read a footer that lists its key twice with two positions
KeyListedTwice ==
  \E i \in PastFooter :
    LET es == FooterEntries(q[i].args.fname.file)
    IN  /\ Cardinality(Matching(q[i])) = 2
        /\ es[MinOf(Matching(q[i]))].fpos # es[MaxOf(Matching(q[i]))].fpos

(***************************************************************************)
(* The records of a dense block.                                           *)
(***************************************************************************)
\* the slots about to read a dense block whose bytes are as written but,
\* perhaps, for the nRecords field
AtDenseBlock ==
  {i \in Slots :
     /\ q[i].pc = "blocks" /\ q[i].args.op = "straw" /\ version >= 7
     /\ q[i].args.fname.file.enc = "dense"
     /\ Head(q[i].blockNumbers) \in DOMAIN q[i].blockMap
     /\ \/ Head(q[i].blockNumbers) \notin q[i].args.fname.file.bad
        \/ q[i].args.fname.file.damage \in {"more", "fewer"}}

\* the records of the cells of block b that hold a contact, in cell order
ContactsOf(fd, pr, k, b) ==
  LET cs == SortCells({c \in LevelCells(fd, pr, k) : BlockOf(fd.lv[k], c) = b})
  IN  [n \in 1..Len(cs) |->
         Rec(cs[n][1], cs[n][2], ShortToFloat(CountOf(k, cs[n][1], cs[n][2])))]

\* C19 as stated: of a block of type 2 readBlock returns one record for each
\* cell that does not hold the sentinel, in cell order and at the cell's
\* place, and no other record, whatever the nRecords field of the block says.
DenseCellsOnly ==
  \A i \in AtDenseBlock :
    LET L == q[i]
        fd == L.args.fname.file
        idx == EntryOf(L.blockMap, Head(L.blockNumbers))
    IN  \A j \in Indeterminate :
          readBlock(version, idx.size, PayloadOf(fd, idx), j)
            = [v |-> ContactsOf(fd, <<L.c1, L.c2>>, 1, Head(L.blockNumbers)),
               fault |-> "none"]

(***************************************************************************)
(* The zoom level readMatrix stops at.                                     *)
(***************************************************************************)
\* the levels of the file of call a, in file order, that have the unit and
\* the bin size asked for
LevelsAsked(a) ==
  {k \in 1..Len(a.fname.file.lv) :
     a.fname.file.lv[k].unit = a.unit /\ a.fname.file.lv[k].binSize = a.binsize}

\* the block map the writer laid down for level k of pair number i
WrittenMap(fd, i, k) ==
  [b \in BlockSet(fd, i, k) |->
     [size |-> DeflatedSize(fd, i, k, b), position |-> BlockPos(i, k, b)]]

\* C20: on a local file readMatrix stops at the first level, in file order,
\* that has the unit and bin size asked for: the block map is that of this
\* level alone, with its offsets and sizes, blockBinCount and blockColumnCount
\* are its own, and the levels before it are skipped in full; when none of the
\* nRes levels matches the map is empty.
StopsAtLevelAsked ==
  \A i \in Slots :
    q[i].pc = "blocks" /\ ~q[i].isHttp /\ q[i].args.fname.file.again = <<>> =>
      LET L == q[i]
          fd == L.args.fname.file
          ks == LevelsAsked(L.args)
      IN  IF ks = {} THEN L.blockMap = NoBlocks
          ELSE /\ L.blockMap = WrittenMap(fd, PairIdx(<<L.c1, L.c2>>), MinOf(ks))
               /\ L.blockBinCount = fd.lv[MinOf(ks)].blockBinCount
               /\ L.blockColumnCount = fd.lv[MinOf(ks)].blockColumnCount

\* a call on a local file has the blocks of the third of four levels
ThirdLevelMapped ==
  \E i \in Slots :
    /\ q[i].pc = "blocks" /\ ~q[i].isHttp
    /\ Len(q[i].args.fname.file.lv) = 4
    /\ LevelsAsked(q[i].args) = {3}
    /\ q[i].blockMap # NoBlocks

====
